---- MODULE Spec2Model ----
(***************************************************************************)
(* Verification model of the merge-request review service.                 *)
(*                                                                         *)
(*   - WebhookProcessor.process_merge_request and its helpers              *)
(*     (app/webhook/processor.py), run by worker threads of the shared     *)
(*     TaskExecutor, with the JSON marker stores of app/storage/json_store *)
(*                                                                         *)
(*   - the webhook ingress gitlab_webhook (app/server/http.py) with the    *)
(*     per-MR cooldown and the dedupe store of app/infra, in front of      *)
(*     either WebhookProcessor class of the repository                     *)
(*                                                                         *)
(* Spec        : process_merge_request runs executing concurrently         *)
(* SeqSpec     : process_merge_request runs executing one after another    *)
(* IngressSpec : webhook requests handled by gitlab_webhook                *)
(*                                                                         *)
(* The content of a review outcome (comment bodies, inline findings,       *)
(* labels) is drawn from its domain at the point where the code first      *)
(* reads it; no step of the code depends on it earlier.                    *)
(***************************************************************************)
EXTENDS Integers, Sequences, FiniteSets, TLC

\* ---------------------------------------------------------------- bounds
NumMR == 2          \* distinct "{project_id}:{mr_iid}" keys
NumRuns == 2        \* invocations of process_merge_request
MaxVersion == 1     \* version ids the VCS adapter reports (0 is None)
NumSha == 1         \* distinct commit_sha arguments (0 is None)
MaxComments == 2    \* comments returned by one generate_review call
MaxFindings == 1    \* inline findings returned by one generate_review call

\* TaskExecutor.__init__: self._max_workers = max(2, max_workers)
MaxWorkers == 2

MRs == 1..NumMR
Workers == 1..MaxWorkers
None == 0
VersionIds == 1..MaxVersion
Shas == 1..NumSha

\* a comment rendered by ReviewComment.to_markdown: empty or not
Bodies == {"", "c"}

\* the id inside a "[ai-review v:<id>]" marker: a version id, or 0 for "unknown"
Markers == {None} \cup VersionIds

\* ------------------------------------------------------ webhook requests
NumUuid == 1        \* distinct X-Gitlab-Event-UUID values (0: header absent)
MaxRequests == 2    \* webhook requests handled
MaxTicks == 1       \* advances of the clock
MaxDeliveries == 3  \* requests handled where redeliveries are followed

\* _CooldownStore(ttl_seconds=20, capacity=8192), _DedupeStore(ttl_seconds=300, capacity=4096)
CooldownTtl == 20
CooldownCapacity == 8192
DedupeTtl == 300
DedupeCapacity == 4096
\* _SEEN_EVENT_MAX
SeenEventMax == 1024

Secret == "secret"
NoToken == ""
Tokens == {NoToken, Secret, "wrong"}
Events == {"Merge Request Hook", "Push Hook"}
Kinds == {"merge_request", "push", "absent"}
EventActions == {"open", "close", "absent"}
\* project.id / object_attributes.iid of a payload: absent, not a number, or a number
Missing == 0 - 2
NotNumeric == 0 - 1
PidValues == {NotNumeric, 1}
IidValues == {Missing, 0} \cup MRs
Uuids == 1..NumUuid
\* updated_at timestamps (0 is "")
UpdatedAts == {1}

\* the fields of a request the handler reads; a request turned away by the IP
\* policy, or carrying another event header, is read no further than that
MergeRequestHooks ==
    [policy : {"ok"}, token : Tokens, event : {"Merge Request Hook"},
     kind : Kinds, pid : PidValues, iid : IidValues, action : EventActions,
     commit : {None} \cup Shas, updated : UpdatedAts, uuid : {None} \cup Uuids]

OtherRequest(policy, token, event) ==
    [policy |-> policy, token |-> token, event |-> event, kind |-> "absent",
     pid |-> Missing, iid |-> Missing, action |-> "absent", commit |-> None,
     updated |-> 0, uuid |-> None]

\* no request (the one a history field holds before any was skipped)
NoRequest == OtherRequest("none", NoToken, "none")

Requests ==
    MergeRequestHooks
        \cup {OtherRequest("ok", t, e) : t \in Tokens, e \in Events \ {"Merge Request Hook"}}
        \cup {OtherRequest(p, Secret, "Merge Request Hook") : p \in {"forbidden", "limited"}}

NoResp ==
    [code |-> 0, status |-> "none", tokenBad |-> FALSE, handle |-> "none",
     wroteCooldown |-> FALSE, wroteDedupe |-> FALSE, queued |-> FALSE, repeat |-> FALSE,
     skipped |-> NoRequest, redelivery |-> FALSE, recorded |-> FALSE]

\* ------------------------------------------------------ review generator
MaxAgentFindings == 1   \* findings in one AgentResult

\* AgenticReviewGenerator.__init__: max_retries = 2, max_concurrency = 4
MaxRetries == 2
MaxConcurrency == 4
\* _build_summary_comment: bullets[:5]
SummaryCap == 5

\* self.agents, in the order generate_review submits them
Agents ==
    <<"task_context", "code_summary", "architecture_diagram", "naming_quality",
      "test_coverage">>

AgentKeys == {Agents[i] : i \in 1..Len(Agents)}

\* str(exc) of a failed attempt
Errors == {"e1", "e2"}

\* (path, line) of a finding; paths are numbered in their lexicographic order
Sites == {<<1, 2>>, <<2, 1>>}

Finding(a, site) == [path |-> site[1], line |-> site[2], body |-> "c", source |-> a]

\* the findings list of an agent's AgentResult: only the structured agents
\* (naming_quality, test_coverage) fill it
FindingLists(a) ==
    IF a \in {"naming_quality", "test_coverage"}
    THEN UNION {[1..n -> {Finding(a, site) : site \in Sites}] : n \in 0..MaxAgentFindings}
    ELSE {<<>>}

\* the content of a successful AgentResult: "", a lone "-" line, or a line of
\* text (written as the agent's key); DiagramAgent.postprocess always wraps a
\* mermaid block
Contents(a) ==
    IF a = "architecture_diagram" THEN {a}
    ELSE IF a \in {"task_context", "code_summary"} THEN {"", "-", a}
    ELSE {"", a}

NoResult == [success |-> FALSE, content |-> "", error |-> "", findings |-> <<>>]

IdleGen ==
    [pc |-> "idle", available |-> TRUE, res |-> [a \in AgentKeys |-> NoResult],
     results |-> <<>>, inline |-> <<>>]

NoOutput == [comments |-> <<>>, inline |-> <<>>]

\* ------------------------------------------------- pre-check payloads
\* the payload keys handle_merge_request_event can look at: object_kind,
\* project.id, object_attributes.iid, object_attributes.action and the names
\* under "changes" (no name: the key is absent or empty)
PayloadIds == {Missing, NotNumeric, 0, 1}
PayloadActions == {"open", "reopen", "update", "close", "absent"}
ChangedNames == SUBSET {"labels", "description", "assignee_id"}

Payloads ==
    [kind : Kinds, pid : PayloadIds, iid : PayloadIds, action : PayloadActions,
     changes : ChangedNames]

\* --------------------------------------------------------- model outputs
\* what an LLM hands to parse_output of a structured agent.  raw is the text;
\* form says what json.loads makes of it once stripped and unfenced: "text"
\* (not JSON), "nonobject" (a JSON array, string, number or null) or "object".
\* For an object, summary and findingsKey say what stands under "summary" and
\* "findings", and entries are the elements of the findings array.
MaxEntries == 2         \* elements of one findings array
MaxCalls == 1           \* calls of a pure operation followed in one behaviour

PlainTexts == {"oops", " oops ", "<fence>oops<fence>"}
JsonTexts == {"json", " json ", "<fence>json<fence>"}

Null == [t |-> "null", v |-> ""]
\* item.get("path"): absent/null, "", a file name, or a number
PathValues == {Null, [t |-> "str", v |-> ""], [t |-> "str", v |-> "a.py"], [t |-> "num", v |-> ""]}
\* item.get("comment"): absent/null, a number, or a string
CommentValues == {Null, [t |-> "num", v |-> ""]} \cup {[t |-> "str", v |-> c] : c \in {"", " ", " c "}}
\* item.get("line"): an integer, a string of digits, any other string, a float
\* (v holds its tenths: 27 is 2.7), or absent/null
LineValues ==
    {[t |-> "int", v |-> 0], [t |-> "int", v |-> 2], [t |-> "numeral", v |-> 2],
     [t |-> "word", v |-> 0], [t |-> "float", v |-> 27], [t |-> "null", v |-> 0]}

NotAnObject == [obj |-> FALSE, path |-> Null, line |-> [t |-> "null", v |-> 0], comment |-> Null]
Entries ==
    {NotAnObject}
        \cup [obj : {TRUE}, path : PathValues, line : LineValues, comment : CommentValues]

EntryLists == UNION {[1..n -> Entries] : n \in 0..MaxEntries}

Summaries == {"absent", "null", "bullets", "look fine"}
FindingsKeys == {"absent", "null", "number", "list"}

ModelOutput(raw, form, summary, findingsKey, entries) ==
    [raw |-> raw, form |-> form, summary |-> summary, findingsKey |-> findingsKey,
     entries |-> entries]

ModelOutputs ==
    {ModelOutput(raw, "text", "absent", "absent", <<>>) : raw \in PlainTexts}
        \cup {ModelOutput(raw, "nonobject", "absent", "absent", <<>>) : raw \in JsonTexts}
        \cup {ModelOutput("json", "object", summary, k, <<>>) :
                  summary \in Summaries, k \in FindingsKeys \ {"list"}}
        \cup {ModelOutput("<fence>json<fence>", "object", summary, "list", entries) :
                  summary \in Summaries, entries \in EntryLists}

StructuredAgents == {"naming_quality", "test_coverage"}

NoAgentResult ==
    [outcome |-> "none", success |-> FALSE, content |-> "", error |-> "", findings |-> <<>>]

NoParse ==
    [agent |-> "unset", calls |-> 0,
     output |-> ModelOutput("", "text", "absent", "absent", <<>>),
     result |-> NoAgentResult]

NoCheck ==
    [impl |-> "unset", calls |-> 0,
     payload |-> [kind |-> "absent", pid |-> Missing, iid |-> Missing, action |-> "absent",
                  changes |-> {}],
     result |-> [type |-> "none", status |-> "none", code |-> 0]]

\* ---------------------------------------------------------- rate limiter
\* token counts are kept in sixtieths of a token, so that a rate of n tokens
\* per minute adds n units per second
TokenUnit == 60
MaxAllows == 3          \* allow() calls followed in one behaviour
PerMinutes == {1, 60}   \* RATE_LIMIT_PER_MIN
Bursts == {0, 1, 2}     \* RATE_LIMIT_BURST
Clients == {"9.9.9.9", "8.8.8.8"}

NoBucket == [made |-> FALSE, tokens |-> 0, timestamp |-> 0]

\* last: the latest allow(key) call: the seconds since the bucket's previous
\* call, its tokens after the refill, what it returned, what the previous call
\* on that bucket returned, and the buckets as they were before
NoAllow ==
    [key |-> "none", fresh |-> TRUE, elapsed |-> 0, refilled |-> 0, ret |-> FALSE,
     before |-> [c \in Clients |-> NoBucket]]

\* ------------------------------------------------ _post_inline_findings
\* the longest list of inline findings handed to one call
MaxInline == 11

\*   pc    : "idle" | "loop" | "returned" | "raised"
\*   n     : len(findings);  idx : findings the loop has gone through
\*   calls : calls of service.review_line so far
NoInline == [pc |-> "idle", n |-> 0, idx |-> 0, calls |-> 0]

\* ------------------------------------------------------ the agent pool
\* the max_concurrency argument AgenticReviewGenerator is built with
Concurrencies == {0, 1, 4, 8}

\*   pc      : "idle" | "pool" | "returned"
\*   maxc    : self.max_concurrency;  workers : max_workers of the pool
\*   pending : the submitted agents no worker has taken yet, oldest first
\*   running : the agents whose _run_agent is in progress;  done : finished
NoPool ==
    [pc |-> "idle", maxc |-> 0, workers |-> 0, pending |-> <<>>, running |-> {},
     done |-> {}]

\* ------------------------------------------------------- _DedupeStore
\* __init__: self._capacity = max(128, capacity)
MinCapacity == 128
\* keys asked of the store: enough to go past the smallest capacity
MaxKeys == 130

\* a _DedupeStore and the should_process calls of the threads
\*   cap, data : self._capacity, self._data
\*   fresh     : the next key never asked before (key 1 is asked first, and
\*               again and again; every other key once)
\*   call      : per thread, its call in progress: key, and the now it read
\*   last      : the call that returned last: its return value and, for key 1,
\*               its now and the stamp and dropped it met (any other key is
\*               written 2)
\*   stamp     : the now of the latest call with key 1 that returned True
\*               (-1: none);  dropped : a cleanup has removed key 1 since
NoDedupeCall == [pc |-> "idle", key |-> 0, now |-> 0]

NoDedupe ==
    [made |-> FALSE, cap |-> 0, data |-> <<>>, fresh |-> 2,
     call |-> [t \in 1..2 |-> NoDedupeCall],
     last |-> [key |-> 0, now |-> 0, ok |-> FALSE, stamp |-> 0 - 1, dropped |-> FALSE],
     stamp |-> 0 - 1, dropped |-> FALSE]

NoLimiter ==
    [made |-> FALSE, rate |-> 0, burst |-> 0, calls |-> 0,
     buckets |-> [c \in Clients |-> NoBucket], last |-> NoAllow]

\* the "mr:{project_id}:{mr_iid}" keys threads call acquire with
CooldownKeys == {<<1, m>> : m \in MRs}

\* now: the local of that name; at: the clock when the call returned
NoAcquire == [pc |-> "idle", key |-> <<1, 1>>, now |-> 0, at |-> 0, ret |-> FALSE]

\* str(exc) of the exceptions agent.execute raises
Messages == Errors \cup {""}
\* last_error = None
NoError == "<None>"

NoAttempt ==
    [pc |-> "idle", agent |-> "task_context", available |-> TRUE, calls |-> 0, raised |-> 0,
     message |-> NoError, last_error |-> NoError, result |-> NoResult]

VARIABLES
    run,            \* per worker thread: position in process_merge_request and its locals
    started,        \* invocations of process_merge_request so far
    mrVersion,      \* VCS adapter: latest version id of each MR (0: none)
    oldNotes,       \* VCS adapter: markers of the notes each MR had before any run
    notes,          \* VCS adapter: per MR and marker, the notes posted that start with it
    versionStore,   \* data/mr_versions.json: key -> list of version ids
    commitStore,    \* data/mr_commits.json: key -> list of commit shas
    impl,           \* the WebhookProcessor class create_app was given ("unset" before)
    now,            \* time.time(), in seconds
    ticks,          \* advances of the clock so far
    nreq,           \* webhook requests handled so far
    seenIds,        \* http._seen_event_ids (deque of event uuids)
    seenSet,        \* http._seen_event_set
    cooldown,       \* _CooldownStore._data: "mr:{project_id}:{mr_iid}" -> expiry (0: no entry)
    dedupe,         \* _DedupeStore._data: idempotency key -> expiry (0: no entry)
    submitted,      \* calls handed to the shared executor, in order
    resp,           \* the last request's response, with what handling it did
    arrival,        \* per idempotency key, the last valid request that carried it
    gen,            \* locals of the generate_review call in progress
    output,         \* the ReviewOutput the last generate_review call returned
    check,          \* the last handle_merge_request_event call: processor, payload, result
    parsed,         \* the last parse_output call: agent, model output, result
    attempt,        \* locals of the _run_agent call in progress
    acq,            \* per thread: its _CooldownStore.acquire call (key, now, return value)
    limiter,        \* the RateLimiter singleton: its buckets, and its last allow() call
    inline,         \* locals of the _post_inline_findings call in progress
    pool,           \* the agent pool of the generate_review call in progress
    ded             \* a _DedupeStore of its own, and its callers' should_process calls

runVars == <<run, started, mrVersion, oldNotes, notes, versionStore, commitStore>>
ingressVars == <<impl, now, ticks, nreq, seenIds, seenSet, cooldown, dedupe, submitted,
                 resp, arrival>>
genVars == <<gen, output>>
auxVars == <<attempt, acq, limiter, inline, pool, ded>>
callVars == <<check, parsed, auxVars>>
vars == <<runVars, ingressVars, genVars, callVars>>

EmptyStore == [m \in MRs |-> <<>>]

InList(x, s) == \E i \in 1..Len(s) : s[i] = x

Unset == <<"unset", "unset", "unset">>

\* locals of one process_merge_request invocation
\*   fetch    : how the three futures of _gather_mr_data ended ("ok" / "raised")
\*   data     : the (diff_text, changed_files, commit_messages) it returned
\*              ("real": the adapter's result, "empty": the empty default)
\*   args     : the values generate_review was called with
\*   review, classify : how the futures of generate_review and classify ended
\*   store    : the dict a _mark_local_* call loaded and has not saved yet
\*   idx      : iterations done of the loop the run is in
\*   noteCalls, inlineCalls, labelCalls : calls of post_mr_note, review_line
\*              and update_mr_labels made so far
\*   comments : the bodies "for body in to_post" has gone through (before the
\*              marker was put on the first); posted : the notes post_mr_note
\*              accepted in that loop, each with the marker it starts with; both
\*              are dropped by the step that follows _post_review_comments
\*   failed   : the call (post_mr_note, review_line, update_mr_labels, or the
\*              ticket lookup of _augment_with_tickets) whose exception ended the run
\*   description : what _augment_with_tickets returned ("original": the
\*              description unchanged, "tickets": with the related tickets), until
\*              generate_review has been called with it
\*   labels   : whether classify produced labels ("some" / "none"), once the run
\*              has come to the point where it applies them or ends without
\*   ended    : the way _handle_review_outcome returned: "no_comments" (nothing
\*              to post), "skipped" (a local marker was found), "posted" (it
\*              went through the posting calls)
\*   prior    : at its start, some earlier run had posted notes for the MR's version
\*   recorded : at its start, the MR's version id was in mr_versions.json
\*   markedVersion, markedCommit : _mark_local_version_processed /
\*              _mark_local_commit_processed has returned
IdleRun ==
    [pc |-> "idle", mr |-> 1, sha |-> None, fetch |-> Unset, data |-> Unset,
     args |-> Unset, review |-> "unset", classify |-> "unset", version |-> None, store |-> EmptyStore, idx |-> 0,
     noteCalls |-> 0, inlineCalls |-> 0, labelCalls |-> 0,
     comments |-> <<>>, posted |-> <<>>, failed |-> "none", description |-> "unset",
     labels |-> "unset", ended |-> "none", prior |-> FALSE, recorded |-> FALSE,
     markedVersion |-> FALSE, markedCommit |-> FALSE]

Init ==
    /\ run = [r \in Workers |-> IdleRun]
    /\ started = 0
    /\ mrVersion \in [MRs -> {None} \cup VersionIds]
    /\ \E old \in BOOLEAN :
         oldNotes = [m \in MRs |-> IF m = 1 /\ old /\ mrVersion[m] # None
                                   THEN {mrVersion[m]} ELSE {}]
    /\ notes = [m \in MRs |-> [k \in Markers |-> 0]]
    /\ versionStore = EmptyStore
    /\ commitStore = EmptyStore
    /\ impl = "unset"
    /\ now = 0
    /\ ticks = 0
    /\ nreq = 0
    /\ seenIds = <<>>
    /\ seenSet = {}
    /\ cooldown = <<>>
    /\ dedupe = <<>>
    /\ submitted = <<>>
    /\ resp = NoResp
    /\ arrival = {}
    /\ gen = IdleGen
    /\ output = NoOutput
    /\ check = NoCheck
    /\ parsed = NoParse
    /\ attempt = NoAttempt
    /\ acq = [t \in Workers |-> NoAcquire]
    /\ limiter = NoLimiter
    /\ inline = NoInline
    /\ pool = NoPool
    /\ ded = NoDedupe

Active(r) == run[r].pc \notin {"idle", "done", "raised"}

\* an exception leaves process_merge_request: nothing in it catches one
Raise(r) == run' = [run EXCEPT ![r].pc = "raised", ![r].store = EmptyStore]

\* ------------------------------------------------ process_merge_request
\* a free worker thread enters
\* process_merge_request(project_id, mr_iid, title, description, commit_sha)
StartRun(r, m, sha) ==
    /\ ~Active(r)
    /\ \A q \in Workers : q < r => Active(q)
    /\ started < NumRuns
    /\ started' = started + 1
    /\ run' = [run EXCEPT ![r] = [IdleRun EXCEPT !.pc = "get_project", !.mr = m, !.sha = sha,
                                     !.prior = notes[m][mrVersion[m]] > 0,
                                     !.recorded = mrVersion[m] # None /\
                                                  InList(mrVersion[m], versionStore[m])]]
    /\ UNCHANGED <<ingressVars, genVars, callVars, mrVersion, oldNotes, notes, versionStore, commitStore>>

\* service = self._make_gitlab_service(project_id); project = service.get_project(project_id)
GetProject(r, ok) ==
    /\ run[r].pc = "get_project"
    /\ IF ok THEN run' = [run EXCEPT ![r].pc = "gather"] ELSE Raise(r)
    /\ UNCHANGED <<ingressVars, genVars, callVars, started, mrVersion, oldNotes, notes, versionStore, commitStore>>

FetchOutcomes == [1..3 -> {"ok", "raised"}]

\* _gather_mr_data for the outcomes f of its three futures: diff_f.result(),
\* files_f.result() and commits_f.result() are called bare, so a failed
\* fetch re-raises out of the function; otherwise the real values
GatherRaises(f) == \E i \in 1..3 : f[i] = "raised"
GatherValues(f) == [i \in 1..3 |-> "real"]

GatherMrData(r, f) ==
    /\ run[r].pc = "gather"
    /\ IF GatherRaises(f)
       THEN run' = [run EXCEPT ![r].pc = "raised", ![r].fetch = f]
       ELSE run' = [run EXCEPT ![r].pc = "augment", ![r].fetch = f,
                               ![r].data = GatherValues(f)]
    /\ UNCHANGED <<ingressVars, genVars, callVars, started, mrVersion, oldNotes, notes, versionStore, commitStore>>

\* what the ticket lookup of _augment_with_tickets comes to: no jira_service,
\* project.mergerequests.get raises, search_related_issues raises, or it
\* returns no issue or some
TicketLookups == {"disabled", "mr_raises", "search_raises", "no_issues", "issues"}

\* _augment_with_tickets, then _augment_with_repo_context: the MR fetch, the
\* Jira search, read_file and list_repository_tree are not guarded; ok says
\* whether _augment_with_repo_context returns
Augment(r, tickets, ok) ==
    /\ run[r].pc = "augment"
    /\ IF tickets \in {"mr_raises", "search_raises"}
       THEN run' = [run EXCEPT ![r].pc = "raised", ![r].store = EmptyStore,
                               ![r].failed = "augment_with_tickets"]
       ELSE IF ok
       THEN run' = [run EXCEPT ![r].pc = "review",
                               ![r].description = IF tickets = "issues" THEN "tickets"
                                                  ELSE "original"]
       ELSE Raise(r)
    /\ UNCHANGED <<ingressVars, genVars, callVars, started, mrVersion, oldNotes, notes, versionStore, commitStore>>

\* _generate_review_outcome -> _review_and_classify: generate_review and, when a
\* classifier and label candidates are configured, classify run in a pool of
\* two; review_f.result() and label_f.result() are called bare
ReviewAndClassify(r, revOk, labOk) ==
    /\ run[r].pc = "review"
    /\ IF revOk /\ labOk
       THEN run' = [run EXCEPT ![r].pc = "outcome", ![r].args = run[r].data,
                               ![r].description = "unset",
                               ![r].review = "ok", ![r].classify = "ok"]
       ELSE run' = [run EXCEPT ![r].pc = "raised", ![r].args = run[r].data,
                               ![r].description = "unset",
                               ![r].review = IF revOk THEN "ok" ELSE "raised",
                               ![r].classify = IF labOk THEN "ok" ELSE "raised"]
    /\ UNCHANGED <<ingressVars, genVars, callVars, started, mrVersion, oldNotes, notes, versionStore, commitStore>>

\* ------------------------------------------------ _handle_review_outcome
\* a marker check that never finds the id
HasLocalMarkerNever(store, m, id) == FALSE

\* _has_local_commit_marker / _has_local_version_marker on the loaded store
HasLocalMarker(store, m, id) == InList(id, store[m])

\* _mark_local_*_processed before its save_json: the loaded dict with id
\* appended to the key's list
WithMarker(store, m, id) == [store EXCEPT ![m] = Append(store[m], id)]

AfterCheckDone(r) == "done"

AfterCheckPost(r) == "post_notes"

\* the step that follows the marker checks of line 227
AfterCheck(r) ==
    IF run[r].version # None THEN "mark_version"
    ELSE IF run[r].sha # None THEN "mark_commit"
    ELSE "post_notes"

AfterMarkVersionAgain(r) == "mark_version"

\* the step that follows _mark_local_version_processed (lines 229-232)
AfterMarkVersion(r) == IF run[r].sha # None THEN "mark_commit" ELSE "post_notes"

\* if outcome.comments: version_id = self._safe_get_latest_version_id(...)
\* (an exception of the adapter becomes None); without comments the method
\* ends there, whatever outcome.labels holds (some)
GetVersion(r, hasComments, some, ok) ==
    /\ run[r].pc = "outcome"
    /\ IF ~hasComments
       THEN run' = [run EXCEPT ![r].pc = "done", ![r].ended = "no_comments",
                               ![r].labels = IF some THEN "some" ELSE "none"]
       ELSE run' = [run EXCEPT ![r].pc = "check_commit",
                               ![r].version = IF ok THEN mrVersion[run[r].mr] ELSE None]
    /\ UNCHANGED <<ingressVars, genVars, callVars, started, mrVersion, oldNotes, notes, versionStore, commitStore>>

\* not (commit_sha and self._has_local_commit_marker(...)): loads mr_commits.json
CheckCommitMarker(r) ==
    /\ run[r].pc = "check_commit"
    /\ IF run[r].sha # None /\ HasLocalMarker(commitStore, run[r].mr, run[r].sha)
       THEN run' = [run EXCEPT ![r].pc = "done", ![r].ended = "skipped"]
       ELSE run' = [run EXCEPT ![r].pc = "check_version"]
    /\ UNCHANGED <<ingressVars, genVars, callVars, started, mrVersion, oldNotes, notes, versionStore, commitStore>>

\* not (version_id and self._has_local_version_marker(...)): loads mr_versions.json
CheckVersionMarker(r) ==
    /\ run[r].pc = "check_version"
    /\ IF run[r].version # None /\ HasLocalMarker(versionStore, run[r].mr, run[r].version)
       THEN run' = [run EXCEPT ![r].pc = "done", ![r].ended = "skipped"]
       ELSE run' = [run EXCEPT ![r].pc = AfterCheck(r)]
    /\ UNCHANGED <<ingressVars, genVars, callVars, started, mrVersion, oldNotes, notes, versionStore, commitStore>>

\* _mark_local_version_processed up to save_json: store = load_json(...)
LoadVersionStore(r) ==
    /\ run[r].pc = "mark_version"
    /\ IF HasLocalMarker(versionStore, run[r].mr, run[r].version)
       THEN run' = [run EXCEPT ![r].pc = AfterMarkVersion(r), ![r].markedVersion = TRUE]
       ELSE run' = [run EXCEPT ![r].pc = "save_version",
                               ![r].store = WithMarker(versionStore, run[r].mr, run[r].version)]
    /\ UNCHANGED <<ingressVars, genVars, callVars, started, mrVersion, oldNotes, notes, versionStore, commitStore>>

\* save_json("mr_versions.json", store): the file is replaced by the loaded dict
SaveVersionStore(r) ==
    /\ run[r].pc = "save_version"
    /\ versionStore' = run[r].store
    /\ run' = [run EXCEPT ![r].pc = AfterMarkVersion(r), ![r].store = EmptyStore,
                           ![r].markedVersion = TRUE]
    /\ UNCHANGED <<ingressVars, genVars, callVars, started, mrVersion, oldNotes, notes, commitStore>>

\* _mark_local_commit_processed up to save_json
LoadCommitStore(r) ==
    /\ run[r].pc = "mark_commit"
    /\ IF HasLocalMarker(commitStore, run[r].mr, run[r].sha)
       THEN run' = [run EXCEPT ![r].pc = "post_notes", ![r].markedCommit = TRUE]
       ELSE run' = [run EXCEPT ![r].pc = "save_commit",
                               ![r].store = WithMarker(commitStore, run[r].mr, run[r].sha)]
    /\ UNCHANGED <<ingressVars, genVars, callVars, started, mrVersion, oldNotes, notes, versionStore, commitStore>>

\* save_json("mr_commits.json", store)
SaveCommitStore(r) ==
    /\ run[r].pc = "save_commit"
    /\ commitStore' = run[r].store
    /\ run' = [run EXCEPT ![r].pc = "post_notes", ![r].store = EmptyStore,
                           ![r].markedCommit = TRUE]
    /\ UNCHANGED <<ingressVars, genVars, callVars, started, mrVersion, oldNotes, notes, versionStore>>

BuildVersionMarkerOfMr(version) == 1

\* _build_version_marker: the id inside "[ai-review v:<id>]" (0 reads "unknown")
BuildVersionMarker(version) == version

\* a note as post_mr_note received it: the marker its body starts with (Unmarked:
\* none) and the comment after it
Unmarked == 0 - 1
Note(marker, body) == [marker |-> marker, body |-> body]

SkipsBodyNever(i, body) == FALSE

\* _post_review_comments: to_post[0] carries the marker and is never empty;
\* a later body is posted only if it is not empty
SkipsBody(i, body) == i > 1 /\ body = ""

\* one iteration of "for body in to_post": service.post_mr_note(project, mr_iid, body);
\* body is comments[i], more says whether the list goes on after it
PostReviewComment(r, body, ok, more) ==
    /\ run[r].pc = "post_notes"
    /\ LET i == run[r].idx + 1
           goOn == more /\ i < MaxComments
           m == run[r].mr
           k == BuildVersionMarker(run[r].version)
       IN IF SkipsBody(i, body)
          THEN /\ run' = [run EXCEPT ![r].pc = IF goOn THEN "post_notes" ELSE "post_inline",
                                       ![r].idx = IF goOn THEN i ELSE 0,
                                       ![r].comments = Append(@, body)]
               /\ UNCHANGED notes
          ELSE IF ok
          THEN /\ notes' = IF i = 1 THEN [notes EXCEPT ![m][k] = @ + 1] ELSE notes
               /\ run' = [run EXCEPT ![r].pc = IF goOn THEN "post_notes" ELSE "post_inline",
                                       ![r].idx = IF goOn THEN i ELSE 0,
                                       ![r].noteCalls = @ + 1,
                                       ![r].comments = Append(@, body),
                                       ![r].posted = Append(@, Note(IF i = 1 THEN k ELSE Unmarked,
                                                                    body))]
          ELSE /\ run' = [run EXCEPT ![r].pc = "raised", ![r].noteCalls = @ + 1,
                                       ![r].comments = <<>>, ![r].posted = <<>>,
                                       ![r].failed = "post_mr_note"]
               /\ UNCHANGED notes
    /\ UNCHANGED <<ingressVars, genVars, callVars, started, mrVersion, oldNotes, versionStore, commitStore>>

\* if outcome.inline_findings: one iteration of _post_inline_findings,
\* service.review_line(...); any says whether the list has an i-th finding
PostInlineFinding(r, any, ok) ==
    /\ run[r].pc = "post_inline"
    /\ LET i == run[r].idx + 1
       IN IF ~any \/ i > MaxFindings
          THEN run' = [run EXCEPT ![r].pc = "apply_labels", ![r].idx = 0,
                                  ![r].comments = <<>>, ![r].posted = <<>>]
          ELSE IF ok
          THEN run' = [run EXCEPT ![r].idx = i, ![r].inlineCalls = @ + 1,
                                  ![r].comments = <<>>, ![r].posted = <<>>]
          ELSE run' = [run EXCEPT ![r].pc = "raised", ![r].inlineCalls = @ + 1,
                                  ![r].comments = <<>>, ![r].posted = <<>>,
                                  ![r].failed = "review_line"]
    /\ UNCHANGED <<ingressVars, genVars, callVars, started, mrVersion, oldNotes, notes, versionStore, commitStore>>

\* if outcome.labels: _apply_labels, service.update_mr_labels(project, mr_iid, labels)
ApplyLabels(r, some, ok) ==
    /\ run[r].pc = "apply_labels"
    /\ IF ~some
       THEN run' = [run EXCEPT ![r].pc = "done", ![r].labels = "none", ![r].ended = "posted"]
       ELSE run' = [run EXCEPT ![r].pc = IF ok THEN "done" ELSE "raised",
                               ![r].labelCalls = @ + 1,
                               ![r].ended = IF ok THEN "posted" ELSE "none",
                               ![r].labels = "some",
                               ![r].failed = IF ok THEN "none" ELSE "update_mr_labels"]
    /\ UNCHANGED <<ingressVars, genVars, callVars, started, mrVersion, oldNotes, notes, versionStore, commitStore>>

\* ------------------------------------------------------- specifications
Step(r) ==
    \/ \E ok \in BOOLEAN : GetProject(r, ok)
    \/ \E f \in FetchOutcomes : GatherMrData(r, f)
    \/ \E tickets \in TicketLookups, ok \in BOOLEAN : Augment(r, tickets, ok)
    \/ \E revOk \in BOOLEAN, labOk \in BOOLEAN : ReviewAndClassify(r, revOk, labOk)
    \/ \E hasComments \in BOOLEAN, some \in BOOLEAN, ok \in BOOLEAN :
          GetVersion(r, hasComments, some, ok)
    \/ CheckCommitMarker(r)
    \/ CheckVersionMarker(r)
    \/ LoadVersionStore(r)
    \/ SaveVersionStore(r)
    \/ LoadCommitStore(r)
    \/ SaveCommitStore(r)
    \/ \E body \in Bodies, ok \in BOOLEAN, more \in BOOLEAN : PostReviewComment(r, body, ok, more)
    \/ \E any \in BOOLEAN, ok \in BOOLEAN : PostInlineFinding(r, any, ok)
    \/ \E some \in BOOLEAN, ok \in BOOLEAN : ApplyLabels(r, some, ok)

\* runs on the worker threads of the shared executor, interleaved
Next ==
    \/ \E r \in Workers, m \in MRs, sha \in {None} \cup Shas : StartRun(r, m, sha)
    \/ \E r \in Workers : Step(r)

Spec == Init /\ [][Next]_vars

\* runs called one after another: a run starts when no other is in progress
NoneActive == \A q \in Workers : ~Active(q)

NextSeq ==
    \/ \E r \in Workers, m \in MRs, sha \in {None} \cup Shas : NoneActive /\ StartRun(r, m, sha)
    \/ \E r \in Workers : Step(r)

SeqSpec == Init /\ [][NextSeq]_vars

\* the worker thread of a run keeps running, and every external call of the
\* run returns or raises
LiveSpec == SeqSpec /\ \A r \in Workers : WF_vars(Step(r))

\* ---------------------------------------------------- webhook processors
\* validate_secret: the legacy processor raises PermissionError, the current
\* one returns a falsy value and never raises
BadToken(token) == token = NoToken \/ token # Secret

ValidateSecretRaises(p, token) == p = "legacy" /\ BadToken(token)

Dict(status, code) == [type |-> "dict", status |-> status, code |-> code]

\* webhook_processor.WebhookProcessor.handle_merge_request_event
HandleLegacy(req) ==
    IF req.kind # "merge_request" THEN Dict("ignored", 0)
    ELSE IF req.pid = Missing \/ req.iid = Missing THEN Dict("error", 400)
    ELSE IF req.pid = NotNumeric \/ req.iid = NotNumeric THEN Dict("error", 400)
    ELSE IF req.pid <= 0 \/ req.iid <= 0 THEN Dict("error", 400)
    ELSE IF req.action \notin {"open", "reopen", "update"} THEN Dict("ignored", 0)
    ELSE Dict("ok", 0)

\* webhook.processor.WebhookProcessor.handle_merge_request_event: subscripts the
\* payload (KeyError when a field is absent) and returns a bool
HandleCurrent(req) ==
    IF req.kind = "absent" THEN [type |-> "raise", status |-> "KeyError", code |-> 0]
    ELSE IF req.kind # "merge_request" THEN [type |-> "bool", status |-> "False", code |-> 0]
    ELSE IF req.action = "absent" THEN [type |-> "raise", status |-> "KeyError", code |-> 0]
    ELSE [type |-> "bool", status |-> IF req.action = "open" THEN "True" ELSE "False",
          code |-> 0]

HandleMergeRequestEvent(p, req) == IF p = "legacy" THEN HandleLegacy(req) ELSE HandleCurrent(req)

\* one call of handle_merge_request_event on a processor of class p
HandleEvent(p, payload) ==
    /\ check.calls < MaxCalls
    /\ check' = [impl |-> p, calls |-> check.calls + 1, payload |-> payload,
                 result |-> HandleMergeRequestEvent(p, payload)]
    /\ UNCHANGED <<runVars, ingressVars, genVars, parsed, auxVars>>

NextCheck ==
    /\ check.calls < MaxCalls
    /\ \E p \in {"current", "legacy"} : \E payload \in Payloads : HandleEvent(p, payload)

\* ------------------------------------------------------- ingress stores
\* a dict of expiry times, as a sequence of entries in insertion order
HasKey(d, k) == \E i \in 1..Len(d) : d[i].key = k

Get(d, k) == IF HasKey(d, k) THEN d[CHOOSE i \in 1..Len(d) : d[i].key = k].exp ELSE 0

PutNothing(d, k, e) == d

\* self._data[key] = e
Put(d, k, e) ==
    IF HasKey(d, k)
    THEN [i \in 1..Len(d) |-> IF d[i].key = k THEN [key |-> k, exp |-> e] ELSE d[i]]
    ELSE Append(d, [key |-> k, exp |-> e])

StillLive(e, t) == e.exp > t

DropExpired(d, t) == SelectSeq(d, LAMBDA e : StillLive(e, t))

CoolingDownNever(exp, t) == FALSE

\* "exp and exp > now" of _CooldownStore.acquire
CoolingDown(exp, t) == exp # 0 /\ exp > t

CooldownCleanup(d, t) == DropExpired(d, t)

CooldownAcquireExtending(d, k, t) ==
    [ok |-> ~CoolingDown(Get(d, k), t), data |-> Put(d, k, t + CooldownTtl)]

\* the locked block of _CooldownStore.acquire
CooldownAcquire(d, k, t) ==
    LET d1 == IF Len(d) > CooldownCapacity THEN CooldownCleanup(d, t) ELSE d
    IN  IF CoolingDown(Get(d1, k), t)
        THEN [ok |-> FALSE, data |-> d1]
        ELSE [ok |-> TRUE, data |-> Put(d1, k, t + CooldownTtl)]

\* a thread enters acquire(key): now = time.time(), read before the lock is taken
CallAcquire(t, k) ==
    /\ acq[t].pc = "idle"
    /\ acq' = [acq EXCEPT ![t] = [pc |-> "waiting", key |-> k, now |-> now, at |-> 0,
                                   ret |-> FALSE]]
    /\ UNCHANGED <<runVars, ingressVars, genVars, check, parsed, attempt, limiter, inline, pool, ded>>

\* "with self._lock:" the whole block, run by one thread at a time with the
\* now it read on entry
LockedAcquire(t) ==
    /\ acq[t].pc = "waiting"
    /\ LET cd == CooldownAcquire(cooldown, acq[t].key, acq[t].now)
       IN  /\ cooldown' = cd.data
           /\ acq' = [acq EXCEPT ![t].pc = "returned", ![t].ret = cd.ok, ![t].at = now]
    /\ UNCHANGED <<runVars, genVars, check, parsed, attempt, limiter, inline, pool, ded, impl, now, ticks, nreq, seenIds,
                   seenSet, dedupe, submitted, resp, arrival>>

SeenRecentlyNever(exp, t) == FALSE

\* "exp and exp > now" of _DedupeStore.should_process
SeenRecently(exp, t) == exp # 0 /\ exp > t

KeepsEveryLiveKey(live, capacity) == live

\* "drop arbitrary extras": list(self._data.keys())[: len - capacity] are the
\* keys inserted first
TrimOldest(live, capacity) ==
    IF Len(live) > capacity
    THEN SubSeq(live, Len(live) - capacity + 1, Len(live))
    ELSE live

\* _cleanup_locked in a store of the given capacity
CleanupLocked(d, t, capacity) == TrimOldest(DropExpired(d, t), capacity)

\* the locked block of should_process in a store of the given capacity
ShouldProcessIn(d, k, t, capacity) ==
    LET d1 == IF Len(d) > capacity THEN CleanupLocked(d, t, capacity) ELSE d
    IN  IF SeenRecently(Get(d1, k), t)
        THEN [ok |-> FALSE, data |-> d1]
        ELSE [ok |-> TRUE, data |-> Put(d1, k, t + DedupeTtl)]

ShouldProcessAnew(d, k, t) == [ok |-> TRUE, data |-> d]

\* the singleton of get_dedupe_store: capacity 4096
DedupeCleanup(d, t) == CleanupLocked(d, t, DedupeCapacity)

ShouldProcess(d, k, t) == ShouldProcessIn(d, k, t, DedupeCapacity)

\* _DedupeStore(ttl_seconds, capacity)
CreateDedupe(capacity) ==
    /\ ~ded.made
    /\ ded' = [NoDedupe EXCEPT !.made = TRUE, !.cap = IF capacity > MinCapacity THEN capacity
                                                       ELSE MinCapacity]
    /\ UNCHANGED <<runVars, ingressVars, genVars, check, parsed, attempt, acq, limiter, inline, pool>>

\* a thread enters should_process(key): now = time.time(), read before the
\* lock is taken
CallShouldProcess(t, k) ==
    /\ ded.made
    /\ ded.call[t].pc = "idle"
    /\ \/ k = 1
       \/ t = 1 /\ k = ded.fresh /\ k <= MaxKeys /\ ded.stamp >= 0
    /\ ded' = [ded EXCEPT !.call[t] = [pc |-> "waiting", key |-> k, now |-> now],
                          !.fresh = IF k = ded.fresh THEN @ + 1 ELSE @]
    /\ UNCHANGED <<runVars, ingressVars, genVars, check, parsed, attempt, acq, limiter, inline, pool>>

\* "with self._lock:" the whole block, run by one thread at a time with the
\* now it read on entry
LockedShouldProcess(t) ==
    /\ ded.call[t].pc = "waiting"
    /\ LET c   == ded.call[t]
           out == ShouldProcessIn(ded.data, c.key, c.now, ded.cap)
           lost == /\ HasKey(ded.data, 1)
                   /\ Len(ded.data) > ded.cap
                   /\ ~HasKey(CleanupLocked(ded.data, c.now, ded.cap), 1)
       IN  ded' = [ded EXCEPT
                     !.data = out.data,
                     !.call[t] = NoDedupeCall,
                     !.last = IF c.key = 1
                              THEN [key |-> 1, now |-> c.now, ok |-> out.ok,
                                    stamp |-> ded.stamp, dropped |-> ded.dropped \/ lost]
                              ELSE [NoDedupe.last EXCEPT !.key = 2, !.ok = out.ok],
                     !.stamp = IF c.key = 1 /\ out.ok THEN c.now ELSE @,
                     !.dropped = IF c.key = 1 /\ out.ok THEN FALSE ELSE @ \/ lost]
    /\ UNCHANGED <<runVars, ingressVars, genVars, check, parsed, attempt, acq, limiter, inline, pool>>

\* the deque(maxlen=_SEEN_EVENT_MAX) append
DequeAppend(ids, u) ==
    IF Len(ids) = SeenEventMax THEN Append(Tail(ids), u) ELSE Append(ids, u)

RecordEventUuid(ids, set, u) ==
    IF u = None \/ u \in set THEN [ids |-> ids, set |-> set]
    ELSE LET ids1 == DequeAppend(ids, u)
         IN  [ids |-> ids1,
              set |-> IF Len(ids1) = SeenEventMax
                      THEN {ids1[i] : i \in 1..Len(ids1)}
                      ELSE set \cup {u}]

NoKey == [uuid |-> None, pid |-> 0, iid |-> 0, sha |-> None, at |-> 0, action |-> ""]

\* event_uuid or f"{project_id}:{mr_iid}:{commit_sha or updated_at}:{action}"
ComputeIdempotencyKey(req) ==
    IF req.uuid # None THEN [NoKey EXCEPT !.uuid = req.uuid]
    ELSE [uuid |-> None, pid |-> req.pid, iid |-> req.iid,
          sha |-> req.commit,
          at |-> IF req.commit # None THEN 0 ELSE req.updated,
          action |-> IF req.action = "absent" THEN "" ELSE req.action]

CooldownKey(req) == <<req.pid, req.iid>>

\* int(project_id), int(mr_iid) raise on None and on text that is not a number
IntRaises(req) == req.pid \in {Missing, NotNumeric} \/ req.iid \in {Missing, NotNumeric}

RejectsNever(result) == FALSE

\* result.get("status") == "error"
Rejects(result) == result.status = "error"

\* ------------------------------------------------------- gitlab_webhook
\* a request the pipeline accepts: right token, merge request hook, well-formed
\* payload, allowed action
Valid(req) ==
    /\ req.policy = "ok"
    /\ req.token = Secret
    /\ req.event = "Merge Request Hook"
    /\ req.kind = "merge_request"
    /\ req.pid >= 1
    /\ req.iid >= 1
    /\ req.action \in {"open", "reopen", "update"}

\* a valid request whose idempotency key was queued less than the TTL ago
Repeat(req) ==
    /\ Valid(req)
    /\ \E a \in arrival : a.key = ComputeIdempotencyKey(req) /\ now - a.at < DedupeTtl

\* the key of the request was queued less than the dedupe TTL ago
Recorded(req) ==
    \E a \in arrival : a.key = ComputeIdempotencyKey(req) /\ now - a.at < DedupeTtl

Answer(code, status) == [NoResp EXCEPT !.code = code, !.status = status]

Keep(answer) ==
    [resp |-> answer, seenIds |-> seenIds, seenSet |-> seenSet, cooldown |-> cooldown,
     dedupe |-> dedupe, submitted |-> submitted, arrival |-> arrival]

SubmitDropped(queue, task) == queue

\* TaskExecutor.submit: self._executor.submit(fn, *args) puts the task in the
\* pool's work queue and returns its Future at once; the handler drops it
Submit(queue, task) == Append(queue, task)

SkippedAfterDedupe(store, asked) == asked

\* "return JSONResponse({"status": "cooldown_skipped"}, ...)" stands before the
\* call of should_process: the dedupe store stays as it was
SkippedByCooldown(store, asked) == store

\* from "dup = _record_event_uuid(...)" to the end of the handler
AfterHeaders(req, base) ==
    LET seen   == RecordEventUuid(seenIds, seenSet, req.uuid)
        kept   == [Keep(base) EXCEPT !.seenIds = seen.ids, !.seenSet = seen.set]
        result == HandleMergeRequestEvent(impl, req)
        cd     == CooldownAcquire(cooldown, CooldownKey(req), now)
        key    == ComputeIdempotencyKey(req)
        dd     == ShouldProcess(dedupe, key, now)
        passed == [base EXCEPT !.handle = result.status]
    IN  IF result.type = "raise"
        THEN [kept EXCEPT !.resp = [base EXCEPT !.code = 500, !.status = "server_error",
                                                !.handle = "raised"]]
        ELSE IF result.type = "bool"
        THEN [kept EXCEPT !.resp = [base EXCEPT !.code = 500, !.status = "server_error",
                                                !.handle = "bool"]]
        ELSE IF Rejects(result)
        THEN [kept EXCEPT !.resp = [passed EXCEPT !.code = result.code, !.status = "error"]]
        ELSE IF IntRaises(req)
        THEN [kept EXCEPT !.resp = [passed EXCEPT !.code = 500, !.status = "server_error"]]
        ELSE IF ~cd.ok
        THEN [kept EXCEPT !.cooldown = cd.data,
                          !.dedupe = SkippedByCooldown(dedupe, dd.data),
                          !.resp = [passed EXCEPT !.code = 202, !.status = "cooldown_skipped"]]
        ELSE IF ~dd.ok
        THEN [kept EXCEPT !.cooldown = cd.data, !.dedupe = dd.data,
                          !.resp = [passed EXCEPT !.code = 202, !.status = "duplicate_skipped"]]
        ELSE [kept EXCEPT !.cooldown = cd.data, !.dedupe = dd.data,
                          !.submitted = Submit(submitted,
                                               [pid |-> req.pid, iid |-> req.iid,
                                                sha |-> req.uuid]),
                          !.arrival = {a \in arrival : a.key # key}
                                         \cup {[key |-> key, at |-> now]},
                          !.resp = [passed EXCEPT !.code = 202, !.status = "queued"]]

GitlabWebhook(req) ==
    LET base == [NoResp EXCEPT !.tokenBad = BadToken(req.token), !.repeat = Repeat(req)]
    IN  IF req.policy = "forbidden" THEN Keep(Answer(403, "forbidden"))
        ELSE IF req.policy = "limited" THEN Keep(Answer(429, "rate_limited"))
        ELSE IF ValidateSecretRaises(impl, req.token)
        THEN Keep([base EXCEPT !.code = 401, !.status = "unauthorized"])
        ELSE IF req.event # "Merge Request Hook"
        THEN Keep([base EXCEPT !.code = 202, !.status = "ignored"])
        ELSE AfterHeaders(req, base)

\* create_app(processor): the processor the application is built around
CreateApp(p) ==
    /\ impl = "unset"
    /\ impl' = p
    /\ UNCHANGED <<runVars, genVars, callVars, now, ticks, nreq, seenIds, seenSet, cooldown, dedupe,
                   submitted, resp, arrival>>

\* one request through gitlab_webhook, the max-th at most; with track, the
\* answer remembers the request the cooldown turned away, whether this
\* request is that one delivered again, and whether its key was recorded
Deliver(req, max, track) ==
    /\ impl # "unset"
    /\ nreq < max
    /\ nreq' = nreq + 1
    /\ LET out == GitlabWebhook(req)
       IN  /\ resp' = [out.resp EXCEPT !.wroteCooldown = out.cooldown # cooldown,
                                       !.wroteDedupe = out.dedupe # dedupe,
                                       !.queued = out.submitted # submitted,
                                       !.skipped =
                                           IF track /\ out.resp.status = "cooldown_skipped"
                                           THEN req ELSE NoRequest,
                                       !.redelivery = track /\ resp.skipped = req,
                                       !.recorded = track /\ Recorded(req)]
           /\ seenIds' = out.seenIds
           /\ seenSet' = out.seenSet
           /\ cooldown' = out.cooldown
           /\ dedupe' = out.dedupe
           /\ submitted' = out.submitted
           /\ arrival' = out.arrival
    /\ UNCHANGED <<runVars, genVars, callVars, impl, now, ticks>>

Webhook(req) == Deliver(req, MaxRequests, FALSE)

\* time.time() moves on between two requests
Tick(dt) ==
    /\ ticks < MaxTicks
    /\ ticks' = ticks + 1
    /\ now' = now + dt
    /\ UNCHANGED <<runVars, genVars, callVars, impl, nreq, seenIds, seenSet, cooldown, dedupe, submitted,
                   resp, arrival>>

NextIngress ==
    \/ \E p \in {"current", "legacy"} : CreateApp(p)
    \/ \E req \in Requests : Webhook(req)
    \/ \E dt \in {CooldownTtl, DedupeTtl} : Tick(dt)

\* ---------------------------------------------------------- rate limiter
Max(a, b) == IF a >= b THEN a ELSE b
Min(a, b) == IF a <= b THEN a ELSE b

\* get_rate_limiter / RateLimiter.__init__: rate_per_sec = max(1, per_minute) / 60.0
\* and, in each bucket, rate = max(0.1, rate_per_sec), capacity = max(1, burst)
CreateLimiter(perMinute, burst) ==
    /\ ~limiter.made
    /\ limiter' = [NoLimiter EXCEPT !.made = TRUE,
                                     !.rate = Max(TokenUnit \div 10, Max(1, perMinute)),
                                     !.burst = Max(1, burst)]
    /\ UNCHANGED <<runVars, ingressVars, genVars, check, parsed, attempt, acq, inline, pool, ded>>

\* _TokenBucket.__init__
NewBucket(capacity, t) == [made |-> TRUE, tokens |-> capacity * TokenUnit, timestamp |-> t]

RefillUncapped(tokens, elapsed, rate, capacity) == tokens + elapsed * rate

\* min(self.capacity, self.tokens + elapsed * self.rate)
Refill(tokens, elapsed, rate, capacity) ==
    Min(capacity * TokenUnit, tokens + elapsed * rate)

\* RateLimiter.allow(key), under its lock: the bucket is created on first use,
\* then _TokenBucket.allow
Allow(key) ==
    /\ limiter.made
    /\ limiter.calls < MaxAllows
    /\ LET old == limiter.buckets[key]
           b == IF old.made THEN old ELSE NewBucket(limiter.burst, now)
           elapsed == now - b.timestamp
           tokens == Refill(b.tokens, elapsed, limiter.rate, limiter.burst)
           ret == tokens >= TokenUnit
       IN  limiter' =
               [limiter EXCEPT
                   !.calls = @ + 1,
                   !.buckets[key] = [made |-> TRUE,
                                     tokens |-> IF ret THEN tokens - TokenUnit ELSE tokens,
                                     timestamp |-> now],
                   !.last = [key |-> key, fresh |-> ~old.made, elapsed |-> elapsed,
                             refilled |-> tokens, ret |-> ret, before |-> limiter.buckets]]
    /\ UNCHANGED <<runVars, ingressVars, genVars, check, parsed, attempt, acq, inline, pool, ded>>

NextLimiter ==
    \/ \E perMinute \in PerMinutes, burst \in Bursts : CreateLimiter(perMinute, burst)
    \/ \E key \in Clients : Allow(key)
    \/ \E dt \in {1, CooldownTtl} : Tick(dt)

\* threads calling acquire on the one store while the clock moves on
NextAcquire ==
    \/ \E t \in Workers, k \in CooldownKeys : CallAcquire(t, k)
    \/ \E t \in Workers : LockedAcquire(t)
    \/ \E dt \in {CooldownTtl - 1, CooldownTtl} : Tick(dt)

\* the ingress reads nothing of the merge requests' state: one initial state
IngressInit == Init /\ mrVersion = [m \in MRs |-> None] /\ oldNotes = [m \in MRs |-> {}]

IngressSpec == IngressInit /\ [][NextIngress]_vars

AcquireSpec == IngressInit /\ [][NextAcquire]_vars

\* ------------------------------------------- the handler and its executor
\* ThreadPoolExecutor: a free worker thread takes the oldest task submitted
\* and not yet taken, and calls process_merge_request with its arguments
TakeTask(r) ==
    /\ started < Len(submitted)
    /\ LET task == submitted[started + 1]
       IN  StartRun(r, task.iid, task.sha)

\* authenticated merge request hooks about merge requests that exist
ServeRequests ==
    {q \in MergeRequestHooks :
        q.token = Secret /\ q.kind = "merge_request" /\ q.pid = 1 /\ q.iid \in MRs}

\* the handler answers requests while the worker threads run what it
\* submitted (one task at a time here: the runs against each other are what
\* Spec explores)
NextServe ==
    \/ \E p \in {"current", "legacy"} : CreateApp(p)
    \/ \E req \in ServeRequests : Webhook(req)
    \/ \E dt \in {CooldownTtl, DedupeTtl} : Tick(dt)
    \/ \E r \in Workers : NoneActive /\ TakeTask(r)
    \/ \E r \in Workers : Step(r)

\* every merge request has a version the adapter reports, and no note yet
ServeInit == Init /\ mrVersion = [m \in MRs |-> MaxVersion] /\ oldNotes = [m \in MRs |-> {}]

ServeSpec == ServeInit /\ [][NextServe]_vars

\* an event, the events that follow it within the cooldown of its merge
\* request, and their redeliveries
NextRedeliver ==
    \/ \E p \in {"current", "legacy"} : CreateApp(p)
    \/ \E req \in ServeRequests : Deliver(req, MaxDeliveries, TRUE)
    \/ \E dt \in {CooldownTtl, DedupeTtl} : Tick(dt)

RedeliverSpec == IngressInit /\ [][NextRedeliver]_vars

\* threads calling acquire on the cooldown store and should_process, with one
\* key, on a dedupe store, while the clock moves on
NextWindow ==
    \/ \E t \in Workers, k \in CooldownKeys : CallAcquire(t, k)
    \/ \E t \in Workers : LockedAcquire(t)
    \/ CreateDedupe(MinCapacity)
    \/ \E t \in 1..2 : CallShouldProcess(t, 1)
    \/ \E t \in 1..2 : LockedShouldProcess(t)
    \/ \E dt \in {CooldownTtl - 1, CooldownTtl, DedupeTtl - 1, DedupeTtl} : Tick(dt)

WindowSpec == IngressInit /\ [][NextWindow]_vars

LimiterSpec == IngressInit /\ [][NextLimiter]_vars

\* the clock is looked at while the store holds a few keys, or all of them
FewKeysOrAll == ded.fresh <= 3 \/ ded.fresh > MaxKeys

\* thread 1 asks key 1 and the fresh keys, thread 2 asks key 1
NextDedupe ==
    \/ \E capacity \in {0, MinCapacity} : CreateDedupe(capacity)
    \/ \E t \in 1..2 : \E k \in {1, ded.fresh} : CallShouldProcess(t, k)
    \/ \E t \in 1..2 : LockedShouldProcess(t)
    \/ \E dt \in {DedupeTtl - 1, DedupeTtl} : FewKeysOrAll /\ Tick(dt)

DedupeSpec == IngressInit /\ [][NextDedupe]_vars

\* ------------------------------------------------ _post_inline_findings
\* self._post_inline_findings(service, mr_iid, project, outcome.inline_findings),
\* called with a non-empty list of n findings
CallPostInlineFindings(n) ==
    /\ inline.pc = "idle"
    /\ inline' = [NoInline EXCEPT !.pc = "loop", !.n = n]
    /\ UNCHANGED <<runVars, ingressVars, genVars, check, parsed, attempt, acq, limiter, pool, ded>>

\* one iteration of "for finding in findings": service.review_line(...), whose
\* exception leaves the method
ReviewLine(ok) ==
    /\ inline.pc = "loop"
    /\ inline.idx < inline.n
    /\ inline' = [inline EXCEPT !.pc = IF ok THEN "loop" ELSE "raised",
                                !.idx = IF ok THEN @ + 1 ELSE @,
                                !.calls = @ + 1]
    /\ UNCHANGED <<runVars, ingressVars, genVars, check, parsed, attempt, acq, limiter, pool, ded>>

\* the list is exhausted: the method returns
ReturnPostInlineFindings ==
    /\ inline.pc = "loop"
    /\ inline.idx = inline.n
    /\ inline' = [inline EXCEPT !.pc = "returned"]
    /\ UNCHANGED <<runVars, ingressVars, genVars, check, parsed, attempt, acq, limiter, pool, ded>>

NextInline ==
    \/ \E n \in 1..MaxInline : CallPostInlineFindings(n)
    \/ \E ok \in BOOLEAN : ReviewLine(ok)
    \/ ReturnPostInlineFindings

InlineSpec == IngressInit /\ [][NextInline]_vars


\* ----------------------------------------- AgenticReviewGenerator
\* _run_agent: the client unavailable, or up to max_retries + 1 attempts of
\* agent.execute, of which the first `fails` raise (err is the last one's
\* str(exc)) and the next returns result
RunAgent(available, fails, err, result) ==
    IF ~available THEN [NoResult EXCEPT !.error = "LLM unavailable"]
    ELSE IF fails >= MaxRetries + 1 THEN [NoResult EXCEPT !.error = err]
    ELSE result

\* what agent.execute can return: a successful AgentResult
ExecuteResults(a) ==
    {[success |-> TRUE, content |-> content, error |-> "", findings |-> findings] :
        content \in Contents(a), findings \in FindingLists(a)}

\* what _run_agent can return for agent a
AgentOutcomes(a, available) ==
    {RunAgent(available, fails, err, result) :
        fails \in 0..(MaxRetries + 1), err \in Errors, result \in ExecuteResults(a)}

AgentIndex(a) == CHOOSE i \in 1..Len(Agents) : Agents[i] = a

\* the pool has min(max_concurrency, len(agents)) workers: the i-th submitted
\* agent starts once i - max_workers earlier ones are finished
Started(a, finished) == AgentIndex(a) - MaxConcurrency <= finished

\* list.sort(key=(path, line)): ascending and stable
KeyLeq(f, g) == f.path < g.path \/ (f.path = g.path /\ f.line <= g.line)

Insert(s, f) ==
    LET k == Cardinality({i \in 1..Len(s) : KeyLeq(s[i], f)})
    IN  SubSeq(s, 1, k) \o <<f>> \o SubSeq(s, k + 1, Len(s))

RECURSIVE SortedByKey(_)
SortedByKey(s) ==
    IF s = <<>> THEN <<>> ELSE Insert(SortedByKey(SubSeq(s, 1, Len(s) - 1)), s[Len(s)])

Unsorted(s) == s

\* inline_findings.sort(...)
SortFindings(s) == SortedByKey(s)

\* _collect_bullets for one result: its non-blank lines without a leading "-"
Bullets(result) == IF result.content \in {"", "-"} THEN <<>> ELSE <<result.content>>

Comment(title, body) == [title |-> title, body |-> body]

\* _build_summary_comment
SummaryComment(res) ==
    LET bullets == Bullets(res["task_context"]) \o Bullets(res["code_summary"])
    IN  IF bullets = <<>> THEN <<>>
        ELSE <<Comment("Task and Diff Summary",
                       SubSeq(bullets, 1, IF Len(bullets) < SummaryCap THEN Len(bullets)
                                          ELSE SummaryCap))>>

\* _render_section
RenderSection(label, result) ==
    IF result.success /\ result.content # "" THEN <<label, result.content>>
    ELSE <<label, "Agent error: ",
           IF result.error # "" THEN result.error ELSE "No output produced.">>

SectionCommentTwice(title, label, result) ==
    <<Comment(title, RenderSection(label, result)), Comment(title, RenderSection(label, result))>>

\* _build_diagram_comment, _build_naming_comment, _build_test_comment
SectionComment(title, label, result) == <<Comment(title, RenderSection(label, result))>>

\* _fallback_body: the error of the first result, in the order the results
\* dict was filled, that has one
FallbackReason(res, order) ==
    IF \E i \in 1..Len(order) : res[order[i]].error # ""
    THEN res[order[CHOOSE i \in 1..Len(order) :
                     /\ res[order[i]].error # ""
                     /\ \A j \in 1..(i - 1) : res[order[j]].error = ""]].error
    ELSE "agent pipeline unavailable"

FallbackComment(res, order) ==
    <<Comment("Agentic Reviewer",
              <<"Agentic pipeline unavailable: ", FallbackReason(res, order), "Diff preview">>)>>

AnySuccessNever(res) == FALSE

\* any(r.success for r in results.values())
AnySuccess(res) == \E a \in AgentKeys : res[a].success

\* _compose_comments
ComposeComments(res, order) ==
    IF order = <<>> THEN <<>>
    ELSE IF ~AnySuccess(res) THEN FallbackComment(res, order)
    ELSE LET comments ==
                 SummaryComment(res)
                     \o SectionComment("Architecture Diagram", "**Mermaid**",
                                       res["architecture_diagram"])
                     \o SectionComment("Naming and Documentation", "**Findings**",
                                       res["naming_quality"])
                     \o SectionComment("Test Coverage Review", "**Analysis**",
                                       res["test_coverage"])
         IN  IF comments # <<>> THEN comments ELSE FallbackComment(res, order)

RECURSIVE Gathered(_, _)
\* inline_findings after the as_completed loop over the futures in `order`
Gathered(res, order) ==
    IF order = <<>> THEN <<>>
    ELSE Gathered(res, SubSeq(order, 1, Len(order) - 1)) \o res[order[Len(order)]].findings

\* the ReviewOutput of generate_review when the futures complete in `order`
ReviewOutputFor(res, order) ==
    [comments |-> ComposeComments(res, order),
     inline |-> SortFindings(Gathered(res, order))]

\* generate_review is entered; every agent is submitted to the pool
StartGenerate(available) ==
    /\ gen.pc \in {"idle", "returned"}
    /\ gen' = [IdleGen EXCEPT !.pc = "running", !.available = available]
    /\ output' = NoOutput
    /\ UNCHANGED <<runVars, ingressVars, callVars>>

RecordAlone(order, a) == <<a>>

\* results[key] = res adds the key to the dict and keeps the keys it holds
Record(order, a) == Append(order, a)

\* one iteration of "for fut in as_completed(...)": the future of agent a is
\* done (a raising future is given AgentResult(key, success=False,
\* error=str(exc)), the record of exhausted retries);
\* results[key] = res, inline_findings.extend(res.findings)
CompleteAgent(a, res) ==
    /\ gen.pc = "running"
    /\ ~InList(a, gen.results)
    /\ Started(a, Len(gen.results))
    /\ gen' = [gen EXCEPT !.res[a] = res,
                          !.results = Record(@, a),
                          !.inline = @ \o res.findings]
    /\ UNCHANGED <<runVars, ingressVars, callVars, output>>

\* after the loop: sort, _compose_comments, return ReviewOutput; gen.inline
\* keeps the list as it was before the sort
ReturnReview ==
    /\ gen.pc = "running"
    /\ Len(gen.results) = Len(Agents)
    /\ output' = [comments |-> ComposeComments(gen.res, gen.results),
                  inline |-> SortFindings(gen.inline)]
    /\ gen' = [gen EXCEPT !.pc = "returned", !.results = <<>>]
    /\ UNCHANGED <<runVars, ingressVars, callVars>>

NextGen ==
    \/ \E available \in BOOLEAN : StartGenerate(available)
    \/ \E a \in AgentKeys : \E res \in AgentOutcomes(a, gen.available) : CompleteAgent(a, res)
    \/ ReturnReview

GenSpec == IngressInit /\ [][NextGen]_vars

\* ------------------------------------------------------ the agent pool
HasFreeWorkerAlways(p) == TRUE

\* ThreadPoolExecutor(max_workers): a queued task is taken when fewer than
\* max_workers tasks are being run
HasFreeWorker(p) == Cardinality(p.running) < p.workers

\* __init__ (self.max_concurrency = max(1, int(max_concurrency))), then in
\* generate_review: max_workers = min(self.max_concurrency, len(self.agents))
\* and every agent is submitted, in the order of self.agents
EnterPool(c) ==
    /\ pool.pc = "idle"
    /\ pool' = [NoPool EXCEPT !.pc = "pool", !.maxc = Max(1, c),
                              !.workers = Min(Max(1, c), Len(Agents)),
                              !.pending = Agents]
    /\ UNCHANGED <<runVars, ingressVars, genVars, check, parsed, attempt, acq, limiter, inline, ded>>

\* a worker thread takes the oldest queued task and enters _run_agent
StartAgent ==
    /\ pool.pc = "pool"
    /\ pool.pending # <<>>
    /\ HasFreeWorker(pool)
    /\ pool' = [pool EXCEPT !.pending = Tail(@), !.running = @ \cup {Head(pool.pending)}]
    /\ UNCHANGED <<runVars, ingressVars, genVars, check, parsed, attempt, acq, limiter, inline, ded>>

\* _run_agent(a) returns or raises: its future is done
FinishAgent(a) ==
    /\ pool.pc = "pool"
    /\ a \in pool.running
    /\ pool' = [pool EXCEPT !.running = @ \ {a}, !.done = @ \cup {a}]
    /\ UNCHANGED <<runVars, ingressVars, genVars, check, parsed, attempt, acq, limiter, inline, ded>>

\* as_completed has yielded every future: the with block is left
ExitPool ==
    /\ pool.pc = "pool"
    /\ pool.done = AgentKeys
    /\ pool' = [pool EXCEPT !.pc = "returned"]
    /\ UNCHANGED <<runVars, ingressVars, genVars, check, parsed, attempt, acq, limiter, inline, ded>>

NextPool ==
    \/ \E c \in Concurrencies : EnterPool(c)
    \/ StartAgent
    \/ \E a \in AgentKeys : FinishAgent(a)
    \/ ExitPool

\* the worker threads run, and every _run_agent call comes to an end (its
\* loop is bounded, given that agent.execute returns or raises)
PoolSpec ==
    /\ IngressInit /\ [][NextPool]_vars
    /\ WF_vars(StartAgent)
    /\ \A a \in AgentKeys : WF_vars(FinishAgent(a))
    /\ WF_vars(ExitPool)

\* ------------------------------------------------------------ _run_agent
\* the locals of one _run_agent call, attempt by attempt:
\*   calls      : calls of agent.execute so far;  raised : those that raised
\*   message    : str(exc) of the latest exception
\*   last_error : the local of that name
\* self.client.available is read once, on entry
EnterRunAgent(a, available) ==
    /\ attempt.pc \in {"idle", "returned"}
    /\ attempt' = [NoAttempt EXCEPT !.pc = IF available THEN "loop" ELSE "returned",
                                     !.agent = a, !.available = available,
                                     !.result = IF available THEN NoResult
                                                ELSE [NoResult EXCEPT !.error = "LLM unavailable"]]
    /\ UNCHANGED <<runVars, ingressVars, genVars, check, parsed, acq, limiter, inline, pool, ded>>

FailedResultBlank(last_error) == NoResult

\* AgentResult(success=False, error=last_error or "Agent failed without error")
FailedResult(last_error) ==
    [NoResult EXCEPT !.error = IF last_error \in {NoError, ""}
                               THEN "Agent failed without error" ELSE last_error]

\* one iteration of "for _ in range(self.max_retries + 1)": agent.execute
\* returns result, or raises an exception whose str() is msg
Execute(raises, msg, result) ==
    /\ attempt.pc = "loop"
    /\ attempt.calls < MaxRetries + 1
    /\ IF raises
       THEN attempt' = [attempt EXCEPT !.calls = @ + 1, !.raised = @ + 1,
                                       !.message = msg, !.last_error = msg]
       ELSE attempt' = [attempt EXCEPT !.calls = @ + 1, !.pc = "returned", !.result = result]
    /\ UNCHANGED <<runVars, ingressVars, genVars, check, parsed, acq, limiter, inline, pool, ded>>

\* the loop is exhausted: return the failed AgentResult
ExhaustRetries ==
    /\ attempt.pc = "loop"
    /\ attempt.calls = MaxRetries + 1
    /\ attempt' = [attempt EXCEPT !.pc = "returned", !.result = FailedResult(attempt.last_error)]
    /\ UNCHANGED <<runVars, ingressVars, genVars, check, parsed, acq, limiter, inline, pool, ded>>

NextAgent ==
    \/ \E a \in AgentKeys, available \in BOOLEAN : EnterRunAgent(a, available)
    \/ \E msg \in Messages : Execute(TRUE, msg, NoResult)
    \/ \E result \in ExecuteResults(attempt.agent) : Execute(FALSE, NoError, result)
    \/ ExhaustRetries

AgentSpec == IngressInit /\ [][NextAgent]_vars

\* ------------------------------------------------------ structured agents
\* str.strip on the texts above
Strip(text) ==
    CASE text = " oops " -> "oops"
      [] text = " json " -> "json"
      [] text = " c " -> "c"
      [] text = " " -> ""
      [] OTHER -> text

\* BaseAgent.postprocess
Postprocess(raw) == Strip(raw)

\* _strip_code_fence: drops an opening and a closing fence
StripCodeFence(text) ==
    CASE Strip(text) = "<fence>oops<fence>" -> "oops"
      [] Strip(text) = "<fence>json<fence>" -> "json"
      [] OTHER -> Strip(text)

\* json.loads raises on a text that is not JSON
JsonLoadsRaises(text) == text # "json"

\* int(line) raises ValueError on a string that is no numeral, TypeError on None
IntRaisesOn(line) == line.t \in {"word", "null"}

\* int(line) otherwise: a float is truncated
IntOf(line) == IF line.t = "float" THEN line.v \div 10 ELSE line.v

\* "path and isinstance(path, str)"
IsFilledStr(value) == value.t = "str" /\ value.v # ""

KeepsEntryAlways(item) == TRUE

\* the conditions under which the loop appends a finding for an item
KeepsEntry(item) ==
    /\ item.obj
    /\ ~IntRaisesOn(item.line)
    /\ IsFilledStr(item.path)
    /\ IntOf(item.line) > 0
    /\ item.comment.t = "str"
    /\ Strip(item.comment.v) # ""

AgentFinding(item, key) ==
    [path |-> item.path.v, line |-> IntOf(item.line), body |-> Strip(item.comment.v),
     source |-> key]

\* the findings loop over a list
CollectFindings(entries, key) ==
    LET kept == SelectSeq(entries, KeepsEntry)
    IN  [i \in 1..Len(kept) |-> AgentFinding(kept[i], key)]

ParseRaised(error) == [NoAgentResult EXCEPT !.outcome = "raised", !.error = error]

AgentResult(content, findings) ==
    [outcome |-> "returned", success |-> TRUE, content |-> content, error |-> "",
     findings |-> findings]

\* NamingQualityAgent.parse_output
NamingParseOutput(out) ==
    LET text == Postprocess(out.raw)
        findings == IF out.findingsKey = "list"
                    THEN CollectFindings(out.entries, "naming_quality") ELSE <<>>
        hasItems == out.summary \in {"bullets", "look fine"}
        content == IF hasItems THEN out.summary ELSE ""
    IN  IF JsonLoadsRaises(StripCodeFence(text)) THEN AgentResult(text, <<>>)
        ELSE IF out.form = "nonobject" THEN ParseRaised("AttributeError")
        ELSE IF out.summary = "null" THEN ParseRaised("TypeError")
        ELSE IF out.findingsKey \in {"null", "number"} THEN ParseRaised("TypeError")
        ELSE IF findings = <<>> /\ (~hasItems \/ out.summary = "look fine")
             THEN AgentResult("", findings)
        ELSE AgentResult(content, findings)

\* TestCoverageAgent.parse_output, for outputs without gaps, recommended_tests
\* and proposed_tests
TestParseOutput(out) ==
    LET text == Postprocess(out.raw)
        findings == IF out.findingsKey = "list"
                    THEN CollectFindings(out.entries, "test_coverage") ELSE <<>>
        body == IF out.summary \in {"bullets", "look fine"} THEN out.summary ELSE ""
    IN  IF JsonLoadsRaises(StripCodeFence(text)) THEN AgentResult(text, <<>>)
        ELSE IF out.form = "nonobject" THEN ParseRaised("AttributeError")
        ELSE IF out.findingsKey = "number" THEN ParseRaised("TypeError")
        ELSE AgentResult(body, findings)

ParseOutput(a, out) ==
    IF a = "naming_quality" THEN NamingParseOutput(out) ELSE TestParseOutput(out)

\* one call of parse_output on agent a
Parse(a, out) ==
    /\ parsed.calls < MaxCalls
    /\ parsed' = [agent |-> a, calls |-> parsed.calls + 1, output |-> out,
                  result |-> ParseOutput(a, out)]
    /\ UNCHANGED <<runVars, ingressVars, genVars, check, auxVars>>

NextParse ==
    /\ parsed.calls < MaxCalls
    /\ \E a \in StructuredAgents : \E out \in ModelOutputs : Parse(a, out)

ParseSpec == IngressInit /\ [][NextParse]_vars

\* calls of the pre-check alone, on either processor class
CheckSpec == IngressInit /\ [][NextCheck]_vars


\* ---------------------------------------------------------------- claims
Finished(r) == run[r].pc \in {"done", "raised"}

\* the run looked up the version id the adapter reports for its MR, and got it
GotVersion(r) == run[r].version # None

\* C1: with runs executed one after another and a non-empty version id
\* reported for the MR, at most one run posts review notes for that version,
\* and a run that starts after a posting run and is given the same version id
\* calls post_mr_note, review_line and update_mr_labels zero times.
C1_SequentialRunsPostOnce ==
    /\ \A m \in MRs, v \in VersionIds : notes[m][v] <= 1
    /\ \A r \in Workers :
         run[r].prior /\ GotVersion(r)
            => run[r].noteCalls = 0 /\ run[r].inlineCalls = 0 /\ run[r].labelCalls = 0

\* a later run that got the version id, found it recorded and ended without posting
C1_Witness ==
    \E r \in Workers :
        run[r].prior /\ GotVersion(r) /\ run[r].pc = "done" /\ run[r].sha = None

\* C2: a run that finds the marker of the current version id in a note the MR
\* already has posts no note, whatever the local stores hold.
C2_ExistingMarkerNoteSkipsPosting ==
    \A r \in Workers :
        GotVersion(r) /\ run[r].version \in oldNotes[run[r].mr] => run[r].noteCalls = 0

\* C3: runs for one MR and one version id, interleaved in any way, leave at
\* most one marker-prefixed note set for that version on the MR.
C3_ConcurrentRunsPostOnce ==
    \A m \in MRs, v \in VersionIds : notes[m][v] <= 1

\* C4: once a run's _mark_local_version_processed / _mark_local_commit_processed
\* has returned, the id it recorded is in the store, whatever other runs do.
C4_NoLostMarkerUpdate ==
    \A r \in Workers :
        /\ run[r].markedVersion => InList(run[r].version, versionStore[run[r].mr])
        /\ run[r].markedCommit => InList(run[r].sha, commitStore[run[r].mr])

\* C5: no exception leaves process_merge_request, whichever external call fails.
C5_NeverRaises ==
    \A r \in Workers : run[r].pc # "raised"

ExactlyOneRaised(f) == Cardinality({i \in 1..3 : f[i] = "raised"}) = 1

\* the values the data-gathering step owes for fetch outcomes f
Degraded(f) == [i \in 1..3 |-> IF f[i] = "raised" THEN "empty" ELSE "real"]

\* C10: when exactly one of the three fetches raises, the gathered values are
\* the real results of the other two and the empty default of the failed one,
\* and the run does not end before generate_review is called with them.
C10_OneFailedFetchIsIsolated ==
    \A r \in Workers :
        ExactlyOneRaised(run[r].fetch)
            => /\ run[r].data = Degraded(run[r].fetch)
               /\ Finished(r) => run[r].args = run[r].data

\* C6: a request whose token is absent or does not match the configured secret
\* is answered 401, writes no cooldown or dedupe entry and is not submitted.
C6_BadTokenRejected ==
    resp.tokenBad
        => /\ resp.code = 401
           /\ ~resp.wroteCooldown
           /\ ~resp.wroteDedupe
           /\ ~resp.queued

\* C7: an event the pre-check ignores (not a merge request, or an action outside
\* the allowed set) is not submitted, and its answer is not the accepted one.
C7_IgnoredNotSubmitted ==
    resp.handle = "ignored" => ~resp.queued /\ resp.status # "queued"

\* C8: a valid request whose idempotency key was queued less than the dedupe TTL
\* ago is answered duplicate_skipped and is not submitted again.
C8_RepeatIsDuplicateSkipped ==
    resp.repeat => resp.status = "duplicate_skipped" /\ ~resp.queued

\* C8 (amended): such a request is answered duplicate_skipped or, while the
\* merge request's cooldown is still running, cooldown_skipped, with 202, and is
\* not submitted again.
C8_RepeatIsSkipped ==
    resp.repeat
        => /\ resp.status \in {"duplicate_skipped", "cooldown_skipped"}
           /\ resp.code = 202
           /\ ~resp.queued

C8_Witness == resp.repeat /\ resp.status = "duplicate_skipped" /\ Len(submitted) = 1

\* C9: when handle_merge_request_event returns status "error" the request is
\* answered with the result's code (400), no cooldown or dedupe entry is written
\* and nothing is submitted.
C9_ErrorResultRejected ==
    resp.handle = "error"
        => /\ resp.code = 400
           /\ resp.status = "error"
           /\ ~resp.wroteCooldown
           /\ ~resp.wroteDedupe
           /\ ~resp.queued

C9_Witness == resp.handle = "error" /\ resp.code = 400 /\ nreq = 1

\* C11: a failure of generate_review or of classify does not end the run: it
\* goes on past _review_and_classify (with no comments, or with no labels), so
\* a run that raised did so in a later posting call.
C11_ReviewAndClassifyIsolated ==
    \A r \in Workers :
        run[r].review = "raised" \/ run[r].classify = "raised"
            => \/ run[r].pc # "raised"
               \/ run[r].noteCalls + run[r].inlineCalls + run[r].labelCalls > 0

Returned == gen.pc = "returned"

IsFallback == \E i \in 1..Len(output.comments) : output.comments[i].title = "Agentic Reviewer"

HasComment(title, body) ==
    \E i \in 1..Len(output.comments) : output.comments[i] = Comment(title, body)

\* the section of a successful agent is among the comments: an overview
\* agent's bullet in the summary, another agent's content under its heading
HasSectionOf(a) ==
    IF a \in {"task_context", "code_summary"}
    THEN gen.res[a].content \in {"", "-"}
            \/ \E i \in 1..Len(output.comments) :
                  /\ output.comments[i].title = "Task and Diff Summary"
                  /\ InList(gen.res[a].content, output.comments[i].body)
    ELSE gen.res[a].content = ""
            \/ HasComment(CASE a = "architecture_diagram" -> "Architecture Diagram"
                             [] a = "naming_quality" -> "Naming and Documentation"
                             [] a = "test_coverage" -> "Test Coverage Review",
                           <<CASE a = "architecture_diagram" -> "**Mermaid**"
                               [] a = "naming_quality" -> "**Findings**"
                               [] a = "test_coverage" -> "**Analysis**",
                             gen.res[a].content>>)

\* C12: when generate_review has returned, the section of every agent that
\* succeeded is among its comments whatever the other agents did, and the
\* "Agentic pipeline unavailable" comment is there only if no agent succeeded.
C12_FailedAgentIsIsolated ==
    Returned
        => /\ \A a \in AgentKeys : gen.res[a].success => HasSectionOf(a)
           /\ IsFallback => \A a \in AgentKeys : ~gen.res[a].success

C12_Witness ==
    /\ Returned
    /\ gen.available
    /\ ~gen.res["code_summary"].success
    /\ gen.res["task_context"].success
    /\ gen.res["task_context"].content = "task_context"
    /\ HasSectionOf("task_context")
    /\ ~IsFallback

\* C13: the ReviewOutput returned is the one the same agent results give when
\* the futures complete in the order the agents were submitted, so it is the
\* same for every completion order.
C13_OutputIndependentOfCompletionOrder ==
    Returned => output = ReviewOutputFor(gen.res, Agents)

Count(seq, x) == Cardinality({i \in 1..Len(seq) : seq[i] = x})

\* C14: the inline findings returned are in non-decreasing (path, line) order
\* and are a permutation of the findings of all agent results.
C14_InlineFindingsSorted ==
    Returned
        => /\ \A i \in 1..Len(output.inline), j \in 1..Len(output.inline) :
                i < j => KeyLeq(output.inline[i], output.inline[j])
           /\ Len(output.inline) = Len(Gathered(gen.res, Agents))
           /\ \A i \in 1..Len(output.inline) :
                Count(output.inline, output.inline[i])
                    = Count(Gathered(gen.res, Agents), output.inline[i])

C14_Witness == Returned /\ Len(output.inline) = 2 /\ gen.inline # output.inline

\* what a caller can take a pre-check result for
Processable(result) ==
    \/ result.type = "dict" /\ result.status = "ok"
    \/ result.type = "bool" /\ result.status = "True"

Ignored(result) ==
    \/ result.type = "dict" /\ result.status = "ignored"
    \/ result.type = "bool" /\ result.status = "False"

Checked == check.impl # "unset"

WellFormed(payload) == payload.kind = "merge_request" /\ payload.pid >= 1 /\ payload.iid >= 1

\* C15: an update event that changed only labels is classified as ignored, and
\* an update event whose changes include description as processable.
C15_UpdateClassifiedByChanges ==
    (Checked /\ WellFormed(check.payload) /\ check.payload.action = "update")
        => /\ check.payload.changes = {"labels"} => Ignored(check.result)
           /\ "description" \in check.payload.changes => Processable(check.result)

\* C16: the pre-check applies its rules in order for every payload: ignored
\* when the kind is not merge_request; otherwise error when an id is missing,
\* not a number or not positive; otherwise ignored when the action is not open,
\* reopen or update; otherwise ok, for open, reopen and meaningful updates.
C16_RulesInOrder ==
    LET payload == check.payload
        result == check.result
        badId == payload.pid < 1 \/ payload.iid < 1
        allowed == payload.action \in {"open", "reopen", "update"}
        meaningful == payload.action = "update"
                          => (payload.changes = {} \/ "description" \in payload.changes)
    IN  Checked
          => /\ payload.kind # "merge_request" => Ignored(result)
             /\ (payload.kind = "merge_request" /\ badId)
                    => result.type = "dict" /\ result.status = "error" /\ result.code = 400
             /\ (payload.kind = "merge_request" /\ ~badId /\ ~allowed) => Ignored(result)
             /\ (payload.kind = "merge_request" /\ ~badId /\ allowed /\ meaningful)
                    => Processable(result)

ParsedCall == parsed.agent # "unset"

\* C17: parse_output of naming_quality and test_coverage never raises, and for
\* a model output that does not decode to a JSON object it returns a successful
\* result whose content is the text and whose findings are empty.
C17_ParseOutputNeverRaises ==
    ParsedCall
        => /\ parsed.result.outcome = "returned"
           /\ parsed.output.form # "object"
                 => /\ parsed.result.success
                    /\ parsed.result.content = Postprocess(parsed.output.raw)
                    /\ parsed.result.findings = <<>>

\* a call on a JSON object whose "findings" is an array (and whose "summary" is
\* not null)
ParsedList ==
    /\ ParsedCall
    /\ parsed.output.form = "object"
    /\ parsed.output.findingsKey = "list"
    /\ parsed.output.summary # "null"

\* the findings are, in order, the entries of the array that satisfy valid
FindingsAre(valid(_)) ==
    LET kept == SelectSeq(parsed.output.entries, valid)
        findings == parsed.result.findings
    IN  /\ parsed.result.outcome = "returned"
        /\ parsed.result.success
        /\ Len(findings) = Len(kept)
        /\ \A i \in 1..Len(kept) :
              /\ findings[i].path = kept[i].path.v
              /\ findings[i].line = IntOf(kept[i].line)
              /\ findings[i].body = Strip(kept[i].comment.v)
              /\ findings[i].source = parsed.agent

NonEmptyStringPath(item) == item.path.t = "str" /\ item.path.v # ""

PositiveIntegerLine(item) == item.line.t = "int" /\ item.line.v > 0

NonEmptyStringComment(item) == item.comment.t = "str" /\ item.comment.v # ""

ConvertsToPositive(item) ==
    \/ item.line.t \in {"int", "numeral"} /\ item.line.v >= 1
    \/ item.line.t = "float" /\ item.line.v >= 10

NonBlankStringComment(item) == item.comment.t = "str" /\ item.comment.v \notin {"", " "}

JustPosted(r) == run[r].pc = "post_inline" /\ run[r].comments # <<>>

NonEmpty(body) == body # ""

C20_NoteFailureDoesNotEndRun ==
    \A r \in Workers : ~(run[r].pc = "raised" /\ run[r].failed = "post_mr_note")

AgentReturned == attempt.pc = "returned"

EveryAttemptRaised == AgentReturned /\ attempt.available /\ attempt.raised = attempt.calls

\* what C21 says of the calls of agent.execute within one _run_agent call
ExecuteCallsBounded ==
    /\ attempt.calls <= MaxRetries + 1
    /\ attempt.calls > attempt.raised => AgentReturned /\ attempt.calls = attempt.raised + 1
    /\ ~attempt.available => attempt.calls = 0

\* C21: agent.execute is called at most max_retries + 1 times, not again after
\* its first return, and not at all when the client is unavailable; when every
\* attempt raised the result is failed and its error is the last message.
C21_RetriesBoundedLastErrorKept ==
    /\ ExecuteCallsBounded
    /\ EveryAttemptRaised
          => /\ attempt.calls = MaxRetries + 1
             /\ ~attempt.result.success
             /\ attempt.result.error = attempt.message

\* C21 (amended): the same, the error being the last message unless that
\* message is empty, in which case it is "Agent failed without error".
C21_RetriesBoundedLastErrorOrDefault ==
    /\ ExecuteCallsBounded
    /\ EveryAttemptRaised
          => /\ attempt.calls = MaxRetries + 1
             /\ ~attempt.result.success
             /\ attempt.message # "" => attempt.result.error = attempt.message
             /\ attempt.message = "" => attempt.result.error = "Agent failed without error"

C21_Witness ==
    /\ EveryAttemptRaised
    /\ attempt.calls = MaxRetries + 1
    /\ attempt.message = ""
    /\ attempt.result.error = "Agent failed without error"

SectionTitles ==
    <<"Task and Diff Summary", "Architecture Diagram", "Naming and Documentation",
      "Test Coverage Review">>

\* C22: the comments generate_review returns are either the single fallback
\* comment "Agentic Reviewer", or a non-empty selection of the four sections in
\* their fixed order, each at most once.
C22_FallbackOrOrderedSections ==
    Returned
        => LET comments == output.comments
               n == Len(comments)
           IN  \/ n = 1 /\ comments[1].title = "Agentic Reviewer"
               \/ /\ n \in 1..Len(SectionTitles)
                  /\ \E pos \in [1..n -> 1..Len(SectionTitles)] :
                        /\ \A i \in 1..n : comments[i].title = SectionTitles[pos[i]]
                        /\ \A i \in 1..(n - 1) : pos[i] < pos[i + 1]

C22_Witness ==
    /\ Returned
    /\ Len(output.comments) = 3
    /\ output.comments[1].title = "Architecture Diagram"
    /\ \E a \in AgentKeys : ~gen.res[a].success

\* C23: a structured agent's successful result with empty content gets no
\* section among the comments generate_review returns.
C23_EmptyContentHasNoSection ==
    Returned
        => /\ (gen.res["naming_quality"].success /\ gen.res["naming_quality"].content = "")
                 => \A i \in 1..Len(output.comments) :
                        output.comments[i].title # "Naming and Documentation"
           /\ (gen.res["test_coverage"].success /\ gen.res["test_coverage"].content = "")
                 => \A i \in 1..Len(output.comments) :
                        output.comments[i].title # "Test Coverage Review"

\* two different threads' calls for one key have both returned True
BothGranted(t, u) ==
    /\ t # u
    /\ acq[t].pc = "returned" /\ acq[u].pc = "returned"
    /\ acq[t].key = acq[u].key
    /\ acq[t].ret /\ acq[u].ret

\* C24: two acquire calls for one key that both return True do so at least the
\* cooldown TTL apart, however the calling threads interleave: once an event
\* is let past the cooldown check, none is let past for the TTL.
C24_GrantsAreTtlApart ==
    \A t, u \in Workers :
        BothGranted(t, u)
            => \/ acq[t].at - acq[u].at >= CooldownTtl
               \/ acq[u].at - acq[t].at >= CooldownTtl

\* C24 (amended): two acquire calls for one key that both return True read the
\* clock, on entry, at least the cooldown TTL apart, however the calling
\* threads interleave.
C24_GrantedCallsAreTtlApart ==
    \A t, u \in Workers :
        BothGranted(t, u)
            => \/ acq[t].now - acq[u].now >= CooldownTtl
               \/ acq[u].now - acq[t].now >= CooldownTtl

C24_Witness ==
    \E t, u \in Workers :
        /\ acq[t].pc = "returned" /\ acq[u].pc = "returned"
        /\ acq[t].key = acq[u].key
        /\ acq[t].ret /\ ~acq[u].ret
        /\ acq[u].now = acq[t].now + CooldownTtl - 1

Allowed == limiter.last.key # "none"

\* C25: every bucket's token count stays within [0, burst]; allow() returns
\* True exactly when a whole token is there after the refill, and then takes
\* one; with burst 1 a second call with no time in between is refused; the
\* buckets of the other clients are left as they were.
C25_TokensBoundedOneTokenPerAllow ==
    /\ \A c \in Clients :
          /\ limiter.buckets[c].tokens >= 0
          /\ limiter.buckets[c].tokens <= limiter.burst * TokenUnit
    /\ Allowed
          => LET last == limiter.last
             IN  /\ last.ret <=> last.refilled >= TokenUnit
                 /\ limiter.buckets[last.key].tokens
                       = IF last.ret THEN last.refilled - TokenUnit ELSE last.refilled
                 /\ (limiter.burst = 1 /\ ~last.fresh /\ last.elapsed = 0) => ~last.ret
                 /\ \A c \in Clients \ {last.key} : limiter.buckets[c] = last.before[c]

C25_Witness ==
    /\ Allowed
    /\ limiter.burst = 1
    /\ ~limiter.last.fresh
    /\ limiter.last.elapsed = 0
    /\ ~limiter.last.ret
    /\ \E c \in Clients \ {limiter.last.key} : limiter.buckets[c].made

\* C26: a failure of the ticket lookup (fetching the MR or searching the
\* tracker) does not end the run: it is never the call whose exception leaves
\* process_merge_request.
C26_TicketLookupIsBestEffort ==
    \A r \in Workers :
        ~(run[r].pc = "raised" /\ run[r].failed = "augment_with_tickets")

\* C28: a review_line failure on one finding does not end the run: the later
\* findings and the labels are still attempted and nothing is raised.
C28_InlineFailureDoesNotEndRun ==
    \A r \in Workers : ~(run[r].pc = "raised" /\ run[r].failed = "review_line")

\* C29: a run that is no duplicate and whose classification produced labels
\* calls update_mr_labels once, with or without comments, and a failure of
\* that call is not raised out of the run.
C29_LabelsAppliedOnce ==
    \A r \in Workers :
        /\ (run[r].pc = "done" /\ run[r].labels = "some") => run[r].labelCalls = 1
        /\ ~(run[r].pc = "raised" /\ run[r].failed = "update_mr_labels")

\* C27: one call of _post_inline_findings makes at most 10 review_line calls,
\* however many findings it was given.
C27_AtMostTenReviewLineCalls == inline.calls <= 10

C31_PoolBoundedAndEveryAgentStarted ==
    /\ [](Cardinality(pool.running) <= Min(pool.maxc, Len(Agents)))
    /\ \A a \in AgentKeys : (pool.pc = "pool") ~> (a \in pool.running \cup pool.done)

\* four of five agents are running under max_concurrency = 4, the fifth waits
C31_Witness ==
    /\ pool.pc = "pool" /\ pool.maxc = MaxConcurrency
    /\ Cardinality(pool.running) = MaxConcurrency
    /\ pool.pending # <<>>

\* C32: once every future of the pool is done the results hold one
\* AgentResult for each agent, whatever the agents came to, and the result of
\* an agent, once recorded, is neither removed nor replaced while its siblings
\* finish.
C32_OneResultPerAgent ==
    /\ [](gen.pc = "running" /\ Len(gen.results) = Len(Agents) =>
            \A a \in AgentKeys :
                Cardinality({i \in 1..Len(gen.results) : gen.results[i] = a}) = 1)
    /\ [][gen'.pc = "running" =>
            \A a \in AgentKeys :
                InList(a, gen.results) => InList(a, gen'.results) /\ gen'.res[a] = gen.res[a]]_vars

\* all five results are in, a failed one beside a successful one
C32_Witness ==
    /\ gen.pc = "running" /\ Len(gen.results) = Len(Agents)
    /\ \E a, b \in AgentKeys : ~gen.res[a].success /\ gen.res[b].success

AllFetched(r) == \A i \in 1..3 : run[r].fetch[i] # "unset"

\* generate_review has been called
ReviewStarted(r) == run[r].args # Unset \/ run[r].review # "unset" \/ run[r].classify # "unset"

PostedAnything(r) == run[r].noteCalls + run[r].inlineCalls + run[r].labelCalls > 0

\* the first two phases of a run come in order
GatherThenReviewThenPost(r) ==
    /\ ReviewStarted(r) => AllFetched(r)
    /\ PostedAnything(r) => run[r].review = "ok" /\ run[r].classify = "ok"

AskedAgainWithinTtl ==
    /\ ded.last.key = 1
    /\ ded.last.stamp >= 0
    /\ ded.last.now - ded.last.stamp < DedupeTtl

\* C35: a should_process call returns False if and only if an earlier call
\* with its key returned True less than ttl ago, cleanup or not.
C35_FalseIffAskedWithinTtl ==
    /\ ded.last.key = 1 => (~ded.last.ok <=> AskedAgainWithinTtl)
    /\ ded.last.key = 2 => ded.last.ok

\* C35 (amended): a should_process call returns False if and only if an
\* earlier call with its key returned True less than ttl ago and no cleanup
\* has removed the key since.
C35_FalseIffAskedWithinTtlAndKept ==
    /\ ded.last.key = 1 => (~ded.last.ok <=> (AskedAgainWithinTtl /\ ~ded.last.dropped))
    /\ ded.last.key = 2 => ded.last.ok

\* key 1 was asked again within the ttl after a cleanup had trimmed it away,
\* and the call returned True
C35_Witness ==
    /\ AskedAgainWithinTtl /\ ded.last.dropped /\ ded.last.ok
    /\ Len(ded.data) >= ded.cap

\* the posting calls of a run come after its version id and commit sha were
\* recorded in the local stores
RecordedBeforePosting(r) ==
    run[r].noteCalls > 0 =>
        /\ GotVersion(r) => InList(run[r].version, versionStore[run[r].mr])
        /\ run[r].sha # None => InList(run[r].sha, commitStore[run[r].mr])

\* no step takes a recorded id out of a local store
NeverRemoved ==
    \A m \in MRs :
        /\ \A v \in VersionIds : InList(v, versionStore[m]) => InList(v, versionStore'[m])
        /\ \A c \in Shas : InList(c, commitStore[m]) => InList(c, commitStore'[m])

PostingStep ==
    \E r \in Workers :
        /\ run[r].pc \in {"post_notes", "post_inline", "apply_labels"}
        /\ run'[r] # run[r]

FirstRunAborted == started = 1 /\ \E r \in Workers : run[r].pc = "raised"

\* C37: after the run of a queued event has aborted, a redelivery of the
\* event within the dedupe TTL is answered duplicate_skipped and not submitted.
C37_RedeliveryAfterAbortIsDuplicateSkipped ==
    resp.repeat /\ FirstRunAborted
        => resp.status = "duplicate_skipped" /\ ~resp.queued

\* C37 (amended): such a redelivery is answered duplicate_skipped or, while the
\* merge request's cooldown is still running, cooldown_skipped, and is not
\* submitted: the redelivery puts no task in the executor's queue.
C37_RedeliveryAfterAbortIsSkipped ==
    resp.repeat /\ FirstRunAborted
        => /\ resp.status \in {"duplicate_skipped", "cooldown_skipped"}
           /\ resp.code = 202
           /\ ~resp.queued
           /\ ~resp.wroteDedupe

\* the run of the event failed at get_project, and its redelivery after the
\* cooldown was answered duplicate_skipped
C37_Witness ==
    /\ resp.repeat /\ FirstRunAborted /\ resp.status = "duplicate_skipped"
    /\ \E r \in Workers : run[r].pc = "raised" /\ run[r].fetch = Unset


\* C38: the cooldown check precedes the dedupe check: an event the per-MR
\* cooldown rejects leaves the dedupe store as it was and queues nothing, so
\* the same event delivered again once the cooldown has expired is queued and
\* not reported as a duplicate; and an event that dedupe rejects has started
\* a new cooldown window for its merge request.
CooldownRejectionKeepsDedupe ==
    resp.status = "cooldown_skipped" => ~resp.wroteDedupe /\ ~resp.queued

DuplicateStartedCooldown ==
    resp.status = "duplicate_skipped" => resp.wroteCooldown

C38_CooldownBeforeDedupe ==
    /\ CooldownRejectionKeepsDedupe
    /\ DuplicateStartedCooldown
    /\ resp.redelivery /\ resp.status # "cooldown_skipped" => resp.status = "queued"

\* C38 as the code has it: the redelivery is queued unless the key of the
\* event was recorded by an accepted delivery less than the dedupe TTL ago
\* (the event that opened the window delivered a second and a third time)
C38_CooldownBeforeDedupeUnlessRecorded ==
    /\ CooldownRejectionKeepsDedupe
    /\ DuplicateStartedCooldown
    /\ resp.redelivery /\ resp.status # "cooldown_skipped" =>
           \/ resp.status = "queued" /\ ~resp.recorded
           \/ resp.status = "duplicate_skipped" /\ resp.recorded

C38_Witness ==
    /\ nreq = 3
    /\ resp.redelivery
    /\ resp.status = "queued"
    /\ Len(submitted) = 2

\* C39: a call of acquire or should_process that returns False leaves the
\* stored expiry of its key as it was, a call that returns True stores its
\* own now plus the TTL, and a call whose now has reached the stored expiry
\* (the TTL after the last accepted call) returns True: rejected calls do not
\* extend the window.
AcquireKeepsWindow(t) ==
    acq[t].pc = "waiting" /\ acq'[t].pc = "returned" =>
        LET k == acq[t].key
            n == acq[t].now
        IN  /\ ~acq'[t].ret => Get(cooldown', k) = Get(cooldown, k)
            /\ acq'[t].ret => Get(cooldown', k) = n + CooldownTtl
            /\ n >= Get(cooldown, k) => acq'[t].ret

ShouldProcessKeepsWindow(t) ==
    ded.call[t].pc = "waiting" /\ ded'.call[t].pc = "idle" =>
        LET k == ded.call[t].key
            n == ded.call[t].now
        IN  /\ ~ded'.last.ok => Get(ded'.data, k) = Get(ded.data, k)
            /\ ded'.last.ok => Get(ded'.data, k) = n + DedupeTtl
            /\ n >= Get(ded.data, k) => ded'.last.ok
            /\ ded.stamp >= 0 /\ n >= ded.stamp + DedupeTtl => ded'.last.ok

C39_RejectedCallKeepsExpiry ==
    [][/\ \A t \in Workers : AcquireKeepsWindow(t)
       /\ \A t \in 1..2 : ShouldProcessKeepsWindow(t)]_vars

\* both stores accepted the key at 0 and rejected it one second before the
\* cooldown TTL had passed: the expiries are still those of the accepted calls
C39_Witness ==
    /\ \E t \in Workers :
           /\ acq[t].pc = "returned"
           /\ ~acq[t].ret
           /\ acq[t].now = CooldownTtl - 1
           /\ Get(cooldown, acq[t].key) = CooldownTtl
    /\ ded.last.key = 1
    /\ ~ded.last.ok
    /\ ded.last.now = CooldownTtl - 1
    /\ Get(ded.data, 1) = DedupeTtl

\* C40: a run that got no version id (None, or a lookup that failed) and was
\* given no commit sha goes from the marker checks straight to the posting
\* calls, writes neither mr_versions.json nor mr_commits.json, and the first
\* note it posts adds one note set under the marker "[ai-review v:unknown]"
\* of its MR, whatever earlier runs in the same situation have posted.
NoVersionNoSha(r) == run[r].version = None /\ run[r].sha = None

Handling(r) ==
    run[r].pc \in {"check_commit", "check_version", "post_notes", "post_inline",
                   "apply_labels"}

C40_UnknownVersionPostsEveryRun ==
    [][\A r \in Workers :
          NoVersionNoSha(r) =>
              /\ run[r].pc = "check_commit" => run'[r].pc = "check_version"
              /\ run[r].pc = "check_version" => run'[r].pc = "post_notes"
              /\ Handling(r) =>
                     /\ versionStore' = versionStore
                     /\ commitStore' = commitStore
                     /\ run'[r].ended # "skipped"
              /\ run[r].pc = "post_notes" /\ run[r].idx = 0 /\ run'[r].pc # "raised" =>
                     notes' = [notes EXCEPT ![run[r].mr][None] = @ + 1]]_vars

\* the second of two runs for merge request 1, both without version id and
\* commit sha, has posted: two note sets under "unknown", no record written
C40_Witness ==
    /\ started = 2
    /\ \E r \in Workers :
           /\ run[r].mr = 1
           /\ NoVersionNoSha(r)
           /\ run[r].ended = "posted"
    /\ notes[1][None] = 2
    /\ versionStore = EmptyStore
    /\ commitStore = EmptyStore
====
